---- MODULE Spec2Model ----
(***************************************************************************)
(* Journal search core of ai-journal-kit: FileScanner, SearchQuery,        *)
(* SearchEngine and the result records, as a state machine over a small    *)
(* journal tree.  Text is a sequence of one-character strings; an optional *)
(* value (date | None, int | None, ...) is a sequence of length 0 or 1     *)
(* (a date is <<y, m, d>>, None is <<>>).                                  *)
(***************************************************************************)
EXTENDS Integers, Sequences, FiniteSets, TLC

VARIABLES
  fs,           \* the journal tree: path -> what the path holds
  dirOrder,     \* the order in which a directory walk enumerates the paths
  ctorArgs,     \* the arguments of a SearchQuery(...) call about to be made
  query,        \* the caller's SearchQuery object
  writes,       \* attribute assignments made to the query object so far
  lastRef,      \* the reference given to search_cross_references
  resultSet,    \* the SearchResultSet the last search returned
  scanned,      \* the arguments and result of the last scan_files call
  err,          \* the exception that left the last call, "none" if none
  pc,           \* where a search() in progress stands
  files,        \* search(): the scan's result
  idx,          \* search(): position in files of the next file to read
  all_results,  \* search(): the results accumulated so far
  seen,         \* what each file held at the moment search() opened it
  call,         \* the last other call made: its method, arguments and outcome
  derived,      \* the result set the last sort_by_date/filter_by_type returned
  manifest,     \* a Manifest object's files: key -> FileEntry
  config        \* a MultiJournalConfig object: active_journal and journals

vars == <<fs, dirOrder, ctorArgs, query, writes, lastRef, resultSet, scanned, err,
          pc, files, idx, all_results, seen, call, derived, manifest, config>>

\* ---------------------------------------------------------------- bounds
\* at most this many entries exist under the journal root
MaxFiles == 2
\* limits are drawn from 1..MaxLimit (plus the invalid 0 and -1)
MaxLimit == 2
\* attribute assignments a caller makes to one query object
MaxWrites == 1

\* sort_by_date/filter_by_type calls chained on one search's result set
MaxChain == 2

None == <<>>
Some(x) == <<x>>

\* ------------------------------------------------------------ characters
Digits == {"0", "1", "2", "3", "4", "5", "6", "7", "8", "9"}

DigitVal(c) ==
  CASE c = "0" -> 0 [] c = "1" -> 1 [] c = "2" -> 2 [] c = "3" -> 3
    [] c = "4" -> 4 [] c = "5" -> 5 [] c = "6" -> 6 [] c = "7" -> 7
    [] c = "8" -> 8 [] c = "9" -> 9

\* a byte sequence that is not valid UTF-8
BadByte == "#FF"

\* the character U+0060
Backtick == "GRAVE"

\* str.lower() on one character of the alphabet in use
Lower(c) ==
  CASE c = "A" -> "a" [] c = "B" -> "b" [] c = "P" -> "p" [] c = "X" -> "x"
    [] c = "D" -> "d" [] c = "E" -> "e" [] c = "I" -> "i" [] c = "L" -> "l"
    [] c = "O" -> "o" [] c = "Y" -> "y"
    [] OTHER -> c

RECURSIVE Flatten(_)
Flatten(ss) == IF ss = <<>> THEN <<>> ELSE Head(ss) \o Flatten(Tail(ss))

SetMin(S) == CHOOSE x \in S : \A y \in S : x <= y

\* str.endswith
EndsWith(s, suf) ==
  /\ Len(s) >= Len(suf)
  /\ SubSeq(s, Len(s) - Len(suf) + 1, Len(s)) = suf

\* str.strip() / str.rstrip(chars)
RECURSIVE RStrip(_, _)
RStrip(s, chars) ==
  IF s # <<>> /\ s[Len(s)] \in chars THEN RStrip(SubSeq(s, 1, Len(s) - 1), chars) ELSE s

RECURSIVE LStrip(_, _)
LStrip(s, chars) ==
  IF s # <<>> /\ Head(s) \in chars THEN LStrip(Tail(s), chars) ELSE s

Whitespace == {" ", "\t", "\n", "\r"}

Strip(s) == LStrip(RStrip(s, Whitespace), Whitespace)

\* ------------------------------------------------------------------ re
\* the characters re.escape() prefixes with a backslash
SpecialChars ==
  {"(", ")", "[", "]", "{", "}", "?", "*", "+", "-", "|", "^", "$", "\\",
   ".", "&", "~", "#", " ", "\t", "\n", "\r"}

\* the pattern handed to re.compile unescaped
ReEscapeNone(pattern) == pattern

ReEscape(pattern) ==
  Flatten([i \in 1..Len(pattern) |->
             IF pattern[i] \in SpecialChars THEN <<"\\", pattern[i]>>
                                            ELSE <<pattern[i]>>])

\* re.compile over the fragment of the syntax the alphabet can produce:
\* "\c" is the character c, "." any character but a newline, "[...]" a
\* character set, anything else itself.  A token of kind "err" stands for
\* re.error (a trailing backslash, an unterminated set).
RECURSIVE ReParse(_, _)
ReParse(src, i) ==
  IF i > Len(src) THEN <<>>
  ELSE IF src[i] = "\\" THEN
    IF i = Len(src) THEN <<[k |-> "err", s |-> {}]>>
    ELSE <<[k |-> "lit", s |-> {src[i + 1]}]>> \o ReParse(src, i + 2)
  ELSE IF src[i] = "." THEN <<[k |-> "any", s |-> {}]>> \o ReParse(src, i + 1)
  ELSE IF src[i] = "[" THEN
    LET close == {j \in (i + 2)..Len(src) : src[j] = "]"} IN
    IF close = {} THEN <<[k |-> "err", s |-> {}]>>
    ELSE LET j == SetMin(close) IN
         <<[k |-> "set", s |-> {src[n] : n \in (i + 1)..(j - 1)}]>>
           \o ReParse(src, j + 1)
  ELSE <<[k |-> "lit", s |-> {src[i]}]>> \o ReParse(src, i + 1)

ReCompile(src) == ReParse(src, 1)

ReError(toks) == \E n \in 1..Len(toks) : toks[n].k = "err"

TokMatch(tok, c, ignorecase) ==
  IF tok.k = "any" THEN c # "\n"
  ELSE IF ignorecase THEN Lower(c) \in {Lower(x) : x \in tok.s}
  ELSE c \in tok.s

\* the compiled pattern matches line at 1-based position i
MatchAt(toks, line, i, ignorecase) ==
  /\ i + Len(toks) - 1 <= Len(line)
  /\ \A n \in 1..Len(toks) : TokMatch(toks[n], line[i + n - 1], ignorecase)

\* regex.search(line) is not None
ReSearch(toks, line, ignorecase) ==
  \E i \in 1..(Len(line) + 1) : MatchAt(toks, line, i, ignorecase)

\* the first match only, as [regex.search(line).span()] would give
FindFirst(toks, line, pos, ignorecase) ==
  LET hits == {i \in pos..(Len(line) + 1) : MatchAt(toks, line, i, ignorecase)} IN
  IF hits = {} THEN <<>>
  ELSE <<<<SetMin(hits) - 1, SetMin(hits) - 1 + Len(toks)>>>>

\* [(m.start(), m.end()) for m in regex.finditer(line)]: leftmost matches,
\* each search resuming where the previous match ended; 0-based offsets
RECURSIVE FindIter(_, _, _, _)
FindIter(toks, line, pos, ignorecase) ==
  LET hits == {i \in pos..(Len(line) + 1) : MatchAt(toks, line, i, ignorecase)} IN
  IF hits = {} THEN <<>>
  ELSE LET i == SetMin(hits) IN
       <<<<i - 1, i - 1 + Len(toks)>>>>
         \o FindIter(toks, line, IF Len(toks) = 0 THEN i + 1 ELSE i + Len(toks),
                     ignorecase)

\* ---------------------------------------------------------------- dates
IsLeap(y) == y % 4 = 0 /\ (y % 100 # 0 \/ y % 400 = 0)

DaysInMonth(y, m) ==
  IF m = 2 THEN (IF IsLeap(y) THEN 29 ELSE 28)
  ELSE IF m \in {4, 6, 9, 11} THEN 30 ELSE 31

\* datetime.date(y, m, d) raises ValueError unless this holds
ValidDate(y, m, d) ==
  /\ y >= 1 /\ y <= 9999
  /\ m >= 1 /\ m <= 12
  /\ d >= 1 /\ d <= DaysInMonth(y, m)

\* date.__lt__ / date.__gt__: by (year, month, day)
DateLT(a, b) ==
  \/ a[1] < b[1]
  \/ a[1] = b[1] /\ a[2] < b[2]
  \/ a[1] = b[1] /\ a[2] = b[2] /\ a[3] < b[3]

DateGT(a, b) == DateLT(b, a)

Num2(s, i) == 10 * DigitVal(s[i]) + DigitVal(s[i + 1])

Num4(s, i) == 100 * Num2(s, i) + Num2(s, i + 2)

\* (\d{4})-(\d{2})-(\d{2}) matches s at position i
DateShapedAt(s, i) ==
  /\ i + 9 <= Len(s)
  /\ \A n \in {0, 1, 2, 3, 5, 6, 8, 9} : s[i + n] \in Digits
  /\ s[i + 4] = "-"
  /\ s[i + 7] = "-"

\* Path.name
Name(path) == path[Len(path)]

\* extract_date_from_filename(file_path): <<y, m, d>>, or <<>> for None
extract_date_from_filename(path) ==
  LET s == Name(path)
      hits == {i \in 1..Len(s) : DateShapedAt(s, i)} IN
  IF hits = {} THEN None
  ELSE LET i == SetMin(hits)
           y == Num4(s, i)
           m == Num2(s, i + 5)
           d == Num2(s, i + 8) IN
       IF ValidDate(y, m, d) THEN <<y, m, d>> ELSE None

\* ---------------------------------------------------------- entry types
DAILY == "daily"
PROJECT == "project"
PEOPLE == "people"
MEMORY == "memory"

\* list(EntryType), in definition order
AllEntryTypes == <<DAILY, PROJECT, PEOPLE, MEMORY>>

InList(x, list) == \E n \in 1..Len(list) : list[n] = x

S_daily == <<"d", "a", "i", "l", "y">>
S_projects == <<"p", "r", "o", "j", "e", "c", "t", "s">>
S_people == <<"p", "e", "o", "p", "l", "e">>
S_memories == <<"m", "e", "m", "o", "r", "i", "e", "s">>
S_notes == <<"n", "o", "t", "e", "s">>

\* the table of FileScanner.get_entry_type
folder_mapping ==
  {<<S_daily, DAILY>>, <<S_projects, PROJECT>>, <<S_people, PEOPLE>>,
   <<S_memories, MEMORY>>}

\* EntryType.value as text
EntryTypeValue(t) ==
  CASE t = DAILY -> <<"d", "a", "i", "l", "y">>
    [] t = PROJECT -> <<"p", "r", "o", "j", "e", "c", "t">>
    [] t = PEOPLE -> <<"p", "e", "o", "p", "l", "e">>
    [] t = MEMORY -> <<"m", "e", "m", "o", "r", "y">>

\* EntryType.to_folder_name()
to_folder_name(t) ==
  IF t = MEMORY THEN <<"m", "e", "m", "o", "r", "i", "e", "s">>
  ELSE IF t = PROJECT THEN <<"p", "r", "o", "j", "e", "c", "t", "s">>
  ELSE IF t = PEOPLE THEN <<"p", "e", "o", "p", "l", "e">>
  ELSE EntryTypeValue(t)

\* file_path.relative_to(self.journal_path) on a path given as
\* [under_root, parts]: <<parts>>, or <<>> where it raises ValueError
relative_to(file_path) ==
  IF file_path.under_root THEN Some(file_path.parts) ELSE None

\* the type looked up from the name of the folder the file lies in
get_entry_type_parent(path) ==
  IF Len(path) < 2 THEN None
  ELSE LET folder == path[Len(path) - 1]
           hit == {e \in folder_mapping : e[1] = folder} IN
       IF hit = {} THEN None ELSE Some((CHOOSE e \in hit : TRUE)[2])

\* a path is its sequence of components relative to the journal root;
\* the result is <<type>>, or <<>> where the code raises ValueError
get_entry_type(path) ==
  IF path = <<>> THEN None
  ELSE LET folder == path[1]
           hit == {e \in folder_mapping : e[1] = folder} IN
       IF hit = {} THEN None ELSE Some((CHOOSE e \in hit : TRUE)[2])

\* ------------------------------------------------------- the journal tree
MD == <<".", "m", "d">>
D2024_11 == <<"2", "0", "2", "4", "-", "1", "1", "-">>

P_d01 == <<S_daily, D2024_11 \o <<"0", "1">> \o MD>>
P_d10 == <<S_daily, D2024_11 \o <<"1", "0">> \o MD>>
P_launch == <<S_projects, D2024_11 \o <<"2", "0">>, <<"l", "a", "u", "n", "c", "h">> \o MD>>
P_notes == <<S_notes, D2024_11 \o <<"0", "5">> \o MD>>
P_root == <<<<"x">> \o MD>>
P_bad == <<S_daily, <<"2", "0", "2", "4", "-", "1", "3", "-", "0", "1", "_">>
                      \o D2024_11 \o <<"0", "5">> \o MD>>
P_m05 == <<S_memories, <<"m", "-">> \o D2024_11 \o <<"0", "5">> \o MD>>
P_txt == <<S_daily, <<"l", "o", "g", ".", "t", "x", "t">>>>

AllPaths == {P_d01, P_d10, P_launch, P_notes, P_root, P_bad, P_m05, P_txt}

NL == <<"\n">>
CRLF == <<"\r", "\n">>

Absent == [kind |-> "none", readable |-> FALSE, data |-> <<>>]
Directory == [kind |-> "dir", readable |-> TRUE, data |-> <<>>]
File(data) == [kind |-> "file", readable |-> TRUE, data |-> data]

\* what each path holds when it exists: daily/2024-11-01.md,
\* daily/2024-11-10.md (no final newline), projects/2024-11-20/launch.md
\* (CRLF, one undecodable byte), notes/2024-11-05.md, x.md in the root,
\* daily/2024-13-01_2024-11-05.md, memories/m-2024-11-05.md, daily/log.txt
Content(path) ==
  CASE path = P_d01 ->
         File(<<"[", "[", "p", "]", "]">> \o NL \o <<"x", "a", "a">> \o NL
              \o <<"a", "a", "a">> \o NL \o <<"b">> \o NL \o <<"A", "a", ".">> \o NL)
    [] path = P_d10 -> File(<<"a", "A">> \o NL \o <<"[", "[", "P", "|", "x", "]", "]">>)
    [] path = P_launch ->
         File(<<"a", "a", ".">> \o CRLF \o <<"b">> \o CRLF \o <<"a", BadByte, "a">> \o CRLF)
    [] path = P_notes -> File(<<"a", "a">> \o NL)
    [] path = P_root -> File(<<"a", "a">> \o NL)
    [] path = P_bad -> File(<<"a", "a">> \o NL)
    [] path = P_m05 -> File(<<"b">> \o NL \o <<"a", "a", "X", "a", "a">> \o NL)
    [] path = P_txt -> File(<<"a", "a">> \o NL)

\* all orderings of a finite set
RECURSIVE Perms(_)
Perms(S) ==
  IF S = {} THEN {<<>>}
  ELSE UNION {{<<x>> \o t : t \in Perms(S \ {x})} : x \in S}

\* the orders in which rglob can enumerate the paths S: a directory's own
\* entries before those of its subdirectories, one subdirectory after the
\* other, each in whatever order the file system lists them
WalkOrders(S) ==
  {o \in Perms(S) :
     /\ \A i, j \in 1..Len(o) : (i < j /\ Len(o[j]) = 1) => Len(o[i]) = 1
     /\ \A i, j, k \in 1..Len(o) :
          (i < j /\ j < k /\ o[i][1] = o[k][1]) => o[j][1] = o[i][1]}

\* ------------------------------------------------------------ file reads
\* bytes.decode("utf-8", errors="ignore")
DecodeIgnore(data) == SelectSeq(data, LAMBDA c : c # BadByte)

\* text mode with newline=None: "\r\n" and "\r" are read as "\n"
RECURSIVE UniversalNewlines(_)
UniversalNewlines(s) ==
  IF s = <<>> THEN <<>>
  ELSE IF Head(s) = "\r" THEN
    IF Len(s) >= 2 /\ s[2] = "\n" THEN NL \o UniversalNewlines(Tail(Tail(s)))
    ELSE NL \o UniversalNewlines(Tail(s))
  ELSE <<Head(s)>> \o UniversalNewlines(Tail(s))

\* f.readlines(): the lines, each keeping its "\n"
RECURSIVE ReadLines(_)
ReadLines(s) ==
  IF s = <<>> THEN <<>>
  ELSE LET ends == {i \in 1..Len(s) : s[i] = "\n"} IN
       IF ends = {} THEN <<s>>
       ELSE LET i == SetMin(ends) IN
            <<SubSeq(s, 1, i)>> \o ReadLines(SubSeq(s, i + 1, Len(s)))

\* the exception open(file_path, "r", encoding="utf-8", errors="ignore")
\* raises on the entry, "none" when it opens
OpenError(entry) ==
  IF entry.kind = "none" THEN "FileNotFoundError"
  ELSE IF entry.kind = "dir" THEN "IsADirectoryError"
  ELSE IF ~entry.readable THEN "PermissionError"
  ELSE "none"

\* an except clause that names only the missing file
CaughtNotFoundOnly(exc) == exc = "FileNotFoundError"

\* `except (IOError, OSError)`: OSError and its subclasses
CaughtOSError(exc) ==
  exc \in {"OSError", "FileNotFoundError", "IsADirectoryError", "PermissionError"}

FileLines(entry) == ReadLines(UniversalNewlines(DecodeIgnore(entry.data)))

\* ----------------------------------------------------------- FileScanner
\* fnmatch of a name against "*.md"
MatchesPattern(path) == EndsWith(Name(path), MD)

\* Path.glob(pattern): the matching entries of the root directory itself
Glob(tree, order) ==
  SelectSeq(order, LAMBDA p : tree[p].kind # "none" /\ MatchesPattern(p)
                              /\ Len(p) = 1)

\* Path.rglob(pattern): the existing entries with a matching name, as the
\* directory walk enumerates them
RGlob(tree, order) ==
  SelectSeq(order, LAMBDA p : tree[p].kind # "none" /\ MatchesPattern(p))

\* `if entry_types:` on an optional list
TruthyList(opt) == opt # None /\ opt[1] # <<>>

\* the type filter without the membership test
PassesTypeFilterClassifiable(path, entry_types) ==
  \/ ~TruthyList(entry_types)
  \/ get_entry_type(path) # None

PassesTypeFilter(path, entry_types) ==
  \/ ~TruthyList(entry_types)
  \/ /\ get_entry_type(path) # None
     /\ InList(get_entry_type(path)[1], entry_types[1])

\* the date filter with both bounds exclusive
PassesDateFilterExclusive(path, date_after, date_before) ==
  \/ date_after = None /\ date_before = None
  \/ LET file_date == extract_date_from_filename(path) IN
     \/ file_date = None
     \/ /\ ~(date_after # None /\ ~DateGT(file_date, date_after))
        /\ ~(date_before # None /\ ~DateLT(file_date, date_before))

PassesDateFilter(path, date_after, date_before) ==
  \/ date_after = None /\ date_before = None
  \/ LET file_date == extract_date_from_filename(path) IN
     \/ file_date = None
     \/ /\ ~(date_after # None /\ DateLT(file_date, date_after))
        /\ ~(date_before # None /\ DateGT(file_date, date_before))

\* FileScanner.scan(entry_types=..., date_after=..., date_before=...)
Scan(tree, order, entry_types, date_after, date_before) ==
  SelectSeq(RGlob(tree, order),
            LAMBDA p : /\ PassesTypeFilter(p, entry_types)
                       /\ PassesDateFilter(p, date_after, date_before))

\* ----------------------------------------------------------- SearchQuery
\* SearchQuery(**args): <<query>>, or <<>> where pydantic raises
\* ValidationError.  args.entry_types is <<>> when the argument is omitted.
\* the validation with limit declared ge=0 and no date-range validator
QueryValidLax(args) ==
  /\ Len(args.search_text) >= 1
  /\ args.limit = None \/ args.limit[1] >= 0

QueryValid(args) ==
  /\ Len(args.search_text) >= 1
  /\ args.limit = None \/ args.limit[1] > 0
  /\ ~(/\ args.date_before # None
       /\ args.date_after # None
       /\ DateGT(args.date_after, args.date_before))

SearchQuery(args) ==
  IF ~QueryValid(args) THEN None
  ELSE Some([search_text |-> args.search_text,
             date_after |-> args.date_after,
             date_before |-> args.date_before,
             entry_types |-> IF args.entry_types = None \/ args.entry_types[1] = <<>>
                             THEN AllEntryTypes ELSE args.entry_types[1],
             cross_reference |-> None,
             case_sensitive |-> args.case_sensitive,
             limit |-> args.limit])

\* ---------------------------------------------------------- SearchEngine
\* s[a:b] for 0 <= a and 0 <= b
PySlice(s, a, b) ==
  LET hi == IF b > Len(s) THEN Len(s) ELSE b IN
  IF a >= hi THEN <<>> ELSE SubSeq(s, a + 1, hi)

Max(a, b) == IF a > b THEN a ELSE b
Min(a, b) == IF a < b THEN a ELSE b

context_lines == 2

\* the context window whose end index leaves out the last line
_extract_context_short(lines, match_line_idx) ==
  LET start_idx == Max(0, match_line_idx - context_lines)
      end_idx == Min(Len(lines), match_line_idx + context_lines) IN
  [before |-> PySlice(lines, start_idx, match_line_idx),
   after |-> PySlice(lines, match_line_idx + 1, end_idx)]

\* SearchEngine._extract_context(lines, match_line_idx), 0-based index
_extract_context(lines, match_line_idx) ==
  LET start_idx == Max(0, match_line_idx - context_lines)
      end_idx == Min(Len(lines), match_line_idx + context_lines + 1) IN
  [before |-> PySlice(lines, start_idx, match_line_idx),
   after |-> PySlice(lines, match_line_idx + 1, end_idx)]

LineEnd == {"\n", "\r"}

StripEach(ls) == [n \in 1..Len(ls) |-> RStrip(ls[n], LineEnd)]

\* SearchEngine._search_in_file(file_path, pattern, case_sensitive) on the
\* entry the path holds when it is opened
_search_in_file(entry, file_path, pattern, case_sensitive) ==
  LET regex == ReCompile(ReEscape(pattern))
      lines == FileLines(entry)
      entry_type == get_entry_type(file_path)
      entry_date == extract_date_from_filename(file_path)
      hit(line_idx) == ReSearch(regex, RStrip(lines[line_idx + 1], LineEnd),
                                ~case_sensitive)
      idxs == SelectSeq([n \in 1..Len(lines) |-> n - 1], hit)
      result(line_idx) ==
        LET line == RStrip(lines[line_idx + 1], LineEnd)
            ctx == _extract_context(lines, line_idx) IN
        [file_path |-> file_path,
         entry_type |-> entry_type[1],
         entry_date |-> entry_date,
         line_number |-> line_idx + 1,
         matched_line |-> line,
         context_before |-> StripEach(ctx.before),
         context_after |-> StripEach(ctx.after),
         match_positions |-> FindIter(regex, line, 1, ~case_sensitive)] IN
  IF ReError(regex) THEN [raised |-> "none", results |-> <<>>]
  ELSE IF OpenError(entry) # "none" THEN
    [raised |-> IF CaughtOSError(OpenError(entry)) THEN "none" ELSE OpenError(entry),
     results |-> <<>>]
  ELSE IF entry_type = None THEN [raised |-> "none", results |-> <<>>]
  ELSE [raised |-> "none", results |-> [n \in 1..Len(idxs) |-> result(idxs[n])]]

\* `if query.limit` on an optional int
TruthyInt(opt) == opt # None /\ opt[1] # 0

\* the loop body that breaks at the limit without cutting the list
LoopBodyNoCut(acc, file_results, limit) ==
  LET ext == acc \o file_results IN
  [results |-> ext, break |-> TruthyInt(limit) /\ Len(ext) >= limit[1]]

\* one iteration of the loop of search(): the results so far and whether
\* the loop breaks
LoopBody(acc, file_results, limit) ==
  LET ext == acc \o file_results IN
  IF TruthyInt(limit) /\ Len(ext) >= limit[1]
  THEN [results |-> PySlice(ext, 0, limit[1]), break |-> TRUE]
  ELSE [results |-> ext, break |-> FALSE]

RECURSIVE SearchLoop(_, _, _, _, _)
SearchLoop(tree, q, fileList, i, acc) ==
  IF i > Len(fileList) THEN [raised |-> "none", results |-> acc]
  ELSE LET found == _search_in_file(tree[fileList[i]], fileList[i],
                                    q.search_text, q.case_sensitive)
           step == LoopBody(acc, found.results, q.limit) IN
       IF found.raised # "none" THEN [raised |-> found.raised, results |-> acc]
       ELSE IF step.break THEN [raised |-> "none", results |-> step.results]
       ELSE SearchLoop(tree, q, fileList, i + 1, step.results)

\* the scan search() starts with
ScanForQuery(tree, order, q) ==
  Scan(tree, order,
       IF q.entry_types # <<>> THEN Some(q.entry_types) ELSE None,
       q.date_after, q.date_before)

\* the set with the number of files scanned as its count
SearchResultSetCountingFiles(results, q, fileList, ms) ==
  [results |-> results,
   query |-> q,
   total_count |-> Len(fileList),
   execution_time_ms |-> ms,
   files_scanned |-> Len(fileList)]

SearchResultSet(results, q, fileList, ms) ==
  [results |-> results,
   query |-> q,
   total_count |-> Len(results),
   execution_time_ms |-> ms,
   files_scanned |-> Len(fileList)]

\* SearchEngine.search(query) on an unchanging tree; ms is the clock's
\* reading.  [raised, set]: the exception that leaves search(), or the set.
search(tree, order, q, ms) ==
  LET fileList == ScanForQuery(tree, order, q)
      out == SearchLoop(tree, q, fileList, 1, <<>>) IN
  [raised |-> out.raised,
   set |-> SearchResultSet(out.results, q, fileList, ms)]

\* ------------------------------------------- SearchResult, SearchResultSet
\* str(n) for n >= 0
RECURSIVE Str(_)
Str(n) ==
  LET digit == CHOOSE c \in Digits : DigitVal(c) = n % 10 IN
  IF n < 10 THEN <<digit>> ELSE Str(n \div 10) \o <<digit>>

\* n in decimal, zero-padded to the width
RECURSIVE ZeroPad(_, _)
ZeroPad(s, width) == IF Len(s) >= width THEN s ELSE ZeroPad(<<"0">> \o s, width)

\* str(date): date.isoformat()
IsoFormat(d) ==
  ZeroPad(Str(d[1]), 4) \o <<"-">> \o ZeroPad(Str(d[2]), 2) \o <<"-">>
    \o ZeroPad(Str(d[3]), 2)

\* strftime("%B")
MonthName(m) ==
  CASE m = 1 -> <<"J", "a", "n", "u", "a", "r", "y">>
    [] m = 2 -> <<"F", "e", "b", "r", "u", "a", "r", "y">>
    [] m = 3 -> <<"M", "a", "r", "c", "h">>
    [] m = 4 -> <<"A", "p", "r", "i", "l">>
    [] m = 5 -> <<"M", "a", "y">>
    [] m = 6 -> <<"J", "u", "n", "e">>
    [] m = 7 -> <<"J", "u", "l", "y">>
    [] m = 8 -> <<"A", "u", "g", "u", "s", "t">>
    [] m = 9 -> <<"S", "e", "p", "t", "e", "m", "b", "e", "r">>
    [] m = 10 -> <<"O", "c", "t", "o", "b", "e", "r">>
    [] m = 11 -> <<"N", "o", "v", "e", "m", "b", "e", "r">>
    [] m = 12 -> <<"D", "e", "c", "e", "m", "b", "e", "r">>

\* sep.join(parts)
RECURSIVE Join(_, _)
Join(parts, sep) ==
  IF parts = <<>> THEN <<>>
  ELSE IF Len(parts) = 1 THEN parts[1]
  ELSE parts[1] \o sep \o Join(Tail(parts), sep)

\* SearchResult.display_date
display_date(r) ==
  IF r.entry_date # None
  THEN MonthName(r.entry_date[2]) \o <<" ">> \o ZeroPad(Str(r.entry_date[3]), 2)
         \o <<",", " ">> \o ZeroPad(Str(r.entry_date[1]), 4)
  ELSE <<"N", "o", " ", "d", "a", "t", "e">>

\* s[a:] for any integer a
PySliceFrom(s, a) ==
  LET lo == IF a < 0 THEN Max(0, Len(s) + a) ELSE a IN
  IF lo >= Len(s) THEN <<>> ELSE SubSeq(s, lo + 1, Len(s))

\* SearchResult.get_context(lines_before, lines_after)
get_context(r, lines_before, lines_after) ==
  Join(PySliceFrom(r.context_before, 0 - lines_before)
         \o <<r.matched_line>>
         \o PySlice(r.context_after, 0, lines_after),
       <<"\n">>)

\* SearchResultSet.is_empty
is_empty(self) == self.total_count = 0

\* date.min
date_min == <<1, 1, 1>>

\* the key of sort_by_date: r.entry_date or date.min
SortKey(r) == IF r.entry_date # None THEN r.entry_date ELSE date_min

\* sorted(results, key=SortKey, reverse=reverse): elements with equal keys
\* keep their order, whichever the direction
RECURSIVE Sorted(_, _)
Sorted(results, reverse) ==
  IF results = <<>> THEN <<>>
  ELSE LET x == results[Len(results)]
           rest == Sorted(SubSeq(results, 1, Len(results) - 1), reverse)
           stays(y) == IF reverse THEN ~DateLT(SortKey(y), SortKey(x))
                       ELSE ~DateLT(SortKey(x), SortKey(y))
           k == Cardinality({n \in 1..Len(rest) : stays(rest[n])}) IN
       SubSeq(rest, 1, k) \o <<x>> \o SubSeq(rest, k + 1, Len(rest))

\* the results sorted oldest first and then turned round for newest first
sort_by_date_reversed(self, descending) ==
  LET up == Sorted(self.results, FALSE) IN
  [self EXCEPT !.results = IF descending
                           THEN [n \in 1..Len(up) |-> up[Len(up) + 1 - n]]
                           ELSE up]

\* SearchResultSet.sort_by_date(descending): the new set
sort_by_date(self, descending) ==
  [results |-> Sorted(self.results, descending),
   query |-> self.query,
   total_count |-> self.total_count,
   execution_time_ms |-> self.execution_time_ms,
   files_scanned |-> self.files_scanned]

\* the filtered results under the source's total_count
filter_by_type_keep_count(self, entry_type) ==
  [self EXCEPT !.results =
     SelectSeq(self.results, LAMBDA r : r.entry_type = entry_type)]

\* SearchResultSet.filter_by_type(entry_type): the new set
filter_by_type(self, entry_type) ==
  LET filtered_results ==
        SelectSeq(self.results, LAMBDA r : r.entry_type = entry_type) IN
  [results |-> filtered_results,
   query |-> self.query,
   total_count |-> Len(filtered_results),
   execution_time_ms |-> self.execution_time_ms,
   files_scanned |-> self.files_scanned]

\* a grouping that keeps the last result of each file only
group_by_file_last(self) ==
  [p \in {self.results[n].file_path : n \in 1..Len(self.results)} |->
     LET own == SelectSeq(self.results, LAMBDA r : r.file_path = p) IN
     <<own[Len(own)]>>]

\* the loop of group_by_file over results[1..n]: the dict so far
RECURSIVE GroupLoop(_, _)
GroupLoop(results, n) ==
  IF n = 0 THEN << >>
  ELSE LET grouped == GroupLoop(results, n - 1)
           result == results[n] IN
       IF result.file_path \notin DOMAIN grouped
       THEN [p \in DOMAIN grouped \cup {result.file_path} |->
               IF p = result.file_path THEN <<result>> ELSE grouped[p]]
       ELSE [grouped EXCEPT ![result.file_path] = Append(@, result)]

\* SearchResultSet.group_by_file(): the dict, as a function on its keys
group_by_file(self) == GroupLoop(self.results, Len(self.results))

\* the literal pieces of the report
Lit ==
  [h2 |-> <<"#", "#", " ">>,
   line |-> <<" ", "(", "L", "i", "n", "e", " ">>,
   date |-> <<"*", "*", "D", "a", "t", "e", "*", "*", ":", " ">>,
   context |-> <<"#", "#", "#", " ", "C", "o", "n", "t", "e", "x", "t">>,
   fence_md |-> <<Backtick, Backtick, Backtick, "m", "a", "r", "k", "d", "o", "w", "n">>,
   fence |-> <<Backtick, Backtick, Backtick>>,
   rule |-> <<"-", "-", "-">>,
   after |-> <<"A", "f", "t", "e", "r", " ">>,
   before |-> <<"B", "e", "f", "o", "r", "e", " ">>,
   types |-> <<"T", "y", "p", "e", "s", ":", " ">>,
   title |-> <<"#", " ", "S", "e", "a", "r", "c", "h", " ",
                "R", "e", "s", "u", "l", "t", "s">>,
   query |-> <<"*", "*", "Q", "u", "e", "r", "y", "*", "*", ":", " ", "\"">>,
   filters |-> <<"*", "*", "F", "i", "l", "t", "e", "r", "s", "*", "*", ":", " ">>,
   results |-> <<"*", "*", "R", "e", "s", "u", "l", "t", "s", "*", "*", ":", " ">>,
   matches_in |-> <<" ", "m", "a", "t", "c", "h", "e", "s", " ", "i", "n", " ">>,
   files |-> <<" ", "f", "i", "l", "e", "s">>,
   generated |-> <<"*", "*", "G", "e", "n", "e", "r", "a", "t", "e", "d", "*", "*", ":", " ">>]

\* export_to_markdown: the "## ..." block of one result, as lines
ResultSection(result) ==
  <<Lit.h2 \o Name(result.file_path) \o Lit.line
      \o Str(result.line_number) \o <<")">>,
    <<>>,
    Lit.date \o display_date(result),
    <<>>,
    Lit.context,
    <<>>,
    Lit.fence_md,
    get_context(result, 2, 2),
    Lit.fence,
    <<>>,
    Lit.rule,
    <<>>>>

\* export_to_markdown: the filters list
ExportFilters(q) ==
  (IF q.date_after # None THEN <<Lit.after \o IsoFormat(q.date_after)>> ELSE <<>>)
  \o (IF q.date_before # None THEN <<Lit.before \o IsoFormat(q.date_before)>>
      ELSE <<>>)
  \o (IF q.entry_types # <<>> /\ Len(q.entry_types) < Len(AllEntryTypes)
      THEN <<Lit.types
               \o Join([n \in 1..Len(q.entry_types) |->
                          EntryTypeValue(q.entry_types[n])], <<",", " ">>)>>
      ELSE <<>>)

\* SearchResultSet.export_to_markdown(output_path): the text written, now
\* being the formatted datetime.now()
export_to_markdown(self, now) ==
  LET filters == ExportFilters(self.query)
      file_count == Cardinality({self.results[n].file_path :
                                   n \in 1..Len(self.results)})
      head ==
        <<Lit.title,
          <<>>,
          Lit.query \o self.query.search_text \o <<"\"">>>>
        \o (IF filters # <<>>
            THEN <<Lit.filters \o Join(filters, <<",", " ">>)>> ELSE <<>>)
        \o <<Lit.results \o Str(self.total_count) \o Lit.matches_in
               \o Str(file_count) \o Lit.files,
             Lit.generated \o now,
             <<>>,
             Lit.rule,
             <<>>>>
      body == Flatten([n \in 1..Len(self.results) |->
                         ResultSection(self.results[n])]) IN
  Join(head \o body, <<"\n">>)

\* -------------------------------------------------------------- inputs
D01 == <<2024, 11, 1>>
D05 == <<2024, 11, 5>>
D10 == <<2024, 11, 10>>

Texts == {<<"a", "a">>, <<".">>}

TypeArgs == {None, Some(<<DAILY>>), Some(<<PROJECT, MEMORY>>)}

AfterArgs == {None, D05}
BeforeArgs == {None, D05}

LimitArgs == {None} \cup {Some(n) : n \in (-1)..MaxLimit}

\* the SearchQuery(...) calls made before a search
QueryArgs ==
  [search_text : Texts \cup {<<>>},
   date_after : AfterArgs,
   date_before : BeforeArgs,
   entry_types : TypeArgs,
   case_sensitive : BOOLEAN,
   limit : LimitArgs]

\* the SearchQuery(...) calls made when the constructor alone is exercised
CtorArgs ==
  [search_text : Texts \cup {<<>>, <<" ">>},
   date_after : {None, D05, D10},
   date_before : {None, D01, D05},
   entry_types : TypeArgs \cup {Some(<<>>)},
   case_sensitive : BOOLEAN,
   limit : LimitArgs]

\* the clock's reading for execution_time_ms
ExecTimes == {1}

References ==
  {<<"p">>, <<" ", "p", ".", "m", "d">>, <<"x">>, <<>>, <<" ">>, MD}

\* the trees with at most MaxFiles entries
Trees ==
  {[p \in AllPaths |-> IF p \in S THEN Content(p) ELSE Absent] :
     S \in {T \in SUBSET AllPaths : Cardinality(T) <= MaxFiles}}

Existing(tree) == {p \in AllPaths : tree[p].kind # "none"}

\* ----------------------------------------------------------------- Init
Init ==
  /\ fs \in Trees
  /\ dirOrder \in WalkOrders(Existing(fs))
  /\ ctorArgs = None
  /\ query = None
  /\ writes = 0
  /\ lastRef = None
  /\ resultSet = None
  /\ scanned = None
  /\ err = "none"
  /\ pc = "idle"
  /\ files = <<>>
  /\ idx = 0
  /\ all_results = <<>>
  /\ seen = <<>>
  /\ call = None
  /\ derived = None
  /\ manifest = None
  /\ config = None

\* nothing has been called yet
Idle ==
  /\ query = None /\ resultSet = None /\ scanned = None /\ lastRef = None
  /\ err = "none" /\ pc = "idle" /\ call = None

\* -------------------------------------------------------------- actions
\* SearchQuery(**a): the caller constructs a query
NewQuery(a) ==
  /\ Idle
  /\ IF SearchQuery(a) = None
     THEN err' = "ValidationError" /\ query' = query
     ELSE query' = SearchQuery(a) /\ err' = err
  /\ UNCHANGED <<manifest, config, call, derived, fs, dirOrder, ctorArgs, writes, lastRef, resultSet, scanned,
                 pc, files, idx, all_results, seen>>

\* engine.search(query), the tree unchanged while it runs
Search ==
  /\ query # None /\ resultSet = None /\ err = "none" /\ pc = "idle"
  /\ \E ms \in ExecTimes :
       LET out == search(fs, dirOrder, query[1], ms) IN
       IF out.raised # "none"
       THEN err' = out.raised /\ resultSet' = resultSet
       ELSE resultSet' = Some(out.set) /\ err' = err
  /\ UNCHANGED <<manifest, config, call, derived, fs, dirOrder, ctorArgs, query, writes, lastRef, scanned,
                 pc, files, idx, all_results, seen>>

\* engine.scan_files(entry_types, date_after, date_before)
ScanFiles ==
  /\ Idle
  /\ \E entry_types \in TypeArgs \cup {Some(<<>>)},
        date_after \in AfterArgs \cup {D10}, date_before \in BeforeArgs \cup {D01} :
       scanned' = Some([entry_types |-> entry_types,
                        date_after |-> date_after,
                        date_before |-> date_before,
                        paths |-> Scan(fs, dirOrder, entry_types,
                                       date_after, date_before)])
  /\ UNCHANGED <<manifest, config, call, derived, fs, dirOrder, ctorArgs, query, writes, lastRef, resultSet, err,
                 pc, files, idx, all_results, seen>>

\* the reference with surrounding whitespace removed and nothing else
NormalizeRefKeepExtension(reference) == Strip(reference)

\* the reference as search_cross_references normalizes it
NormalizeRef(reference) ==
  LET stripped == Strip(reference) IN
  IF EndsWith(stripped, MD) THEN SubSeq(stripped, 1, Len(stripped) - 3)
  ELSE stripped

\* the SearchQuery(...) call of search_cross_references
CrossRefArgs(reference, entry_types, date_after, date_before) ==
  [search_text |-> <<"[", "[">> \o NormalizeRef(reference),
   date_after |-> date_after,
   date_before |-> date_before,
   entry_types |-> IF TruthyList(entry_types) THEN entry_types
                   ELSE Some(AllEntryTypes),
   case_sensitive |-> FALSE,
   limit |-> None]

\* engine.search_cross_references(reference, entry_types, date_after,
\* date_before), ms being the clock's reading
SearchCrossReferencesOf(reference, entry_types, date_after, date_before, ms) ==
  /\ Idle
  /\ LET q == SearchQuery(CrossRefArgs(reference, entry_types,
                                       date_after, date_before)) IN
     /\ lastRef' = Some(reference)
     /\ call' = Some([method |-> "search_cross_references", self |-> None,
                      args |-> [reference |-> reference,
                                entry_types |-> entry_types,
                                date_after |-> date_after,
                                date_before |-> date_before],
                      ret |-> None])
     /\ IF NormalizeRef(reference) = <<>>
        THEN err' = "ValueError" /\ resultSet' = resultSet
        ELSE IF q = None
        THEN err' = "ValidationError" /\ resultSet' = resultSet
        ELSE LET out == search(fs, dirOrder, q[1], ms) IN
             IF out.raised # "none"
             THEN err' = out.raised /\ resultSet' = resultSet
             ELSE resultSet' = Some(out.set) /\ err' = err
  /\ UNCHANGED <<manifest, config, derived, fs, dirOrder, ctorArgs, query, writes, scanned,
                 pc, files, idx, all_results, seen>>

SearchCrossReferences ==
  \E reference \in References, entry_types \in TypeArgs \cup {Some(<<>>)},
     date_after \in AfterArgs \cup {D10}, date_before \in BeforeArgs,
     ms \in ExecTimes :
    SearchCrossReferencesOf(reference, entry_types, date_after, date_before, ms)

\* the paths get_entry_type is called with: under the root at depth 0 to 3
\* in known and unknown folders, and the same components outside the root
EntryTypePaths ==
  [under_root : BOOLEAN,
   parts : AllPaths \cup {<<>>, <<S_daily>>, <<S_people, P_root[1]>>,
                          <<S_memories, S_daily, S_notes, P_root[1]>>,
                          <<S_notes, S_daily, P_root[1]>>,
                          <<S_daily, S_projects, P_root[1]>>,
                          <<EntryTypeValue(PROJECT), P_root[1]>>,
                          <<EntryTypeValue(MEMORY), P_root[1]>>}]

\* file_scanner.get_entry_type(file_path)
GetEntryType ==
  /\ Idle
  /\ \E file_path \in EntryTypePaths :
       LET rel == relative_to(file_path)
           out == IF rel = None THEN None ELSE get_entry_type(rel[1]) IN
       /\ call' = Some([method |-> "get_entry_type", self |-> None,
                        args |-> file_path, ret |-> out])
       /\ err' = IF out = None THEN "ValueError" ELSE err
  /\ UNCHANGED <<manifest, config, derived, fs, dirOrder, ctorArgs, query, writes, lastRef,
                 resultSet, scanned, pc, files, idx, all_results, seen>>

Next ==
  \/ \E a \in QueryArgs : NewQuery(a)
  \/ Search
  \/ ScanFiles
  \/ SearchCrossReferences
  \/ GetEntryType

Spec == Init /\ [][Next]_vars

\* ------------------------------------------- search(), one file at a time
\* The same search() with the journal open to other processes: the scan,
\* then one loop iteration per step, then the return.
Unreadable(entry) == [entry EXCEPT !.readable = FALSE]

ExtPaths == {P_d01, P_d10, P_m05}

\* the entry a path holds as a plain file, a directory or a file without
\* read permission
EntryAs(p, how) ==
  CASE how = "file" -> Content(p)
    [] how = "dir" -> Directory
    [] how = "locked" -> Unreadable(Content(p))

ExtTrees ==
  UNION {{[p \in AllPaths |-> IF p \in S THEN EntryAs(p, how[p]) ELSE Absent] :
            how \in [S -> {"file", "dir", "locked"}]} :
         S \in {T \in SUBSET ExtPaths : Cardinality(T) \in 1..MaxFiles}}

ExtQueryArgs ==
  [search_text : {<<"a", "a">>},
   date_after : {None},
   date_before : {None},
   entry_types : {None},
   case_sensitive : {FALSE},
   limit : {None, Some(MaxLimit)}]

InitExt ==
  /\ fs \in ExtTrees
  /\ dirOrder \in WalkOrders(Existing(fs))
  /\ ctorArgs = None
  /\ query \in {SearchQuery(a) : a \in ExtQueryArgs}
  /\ writes = 0
  /\ lastRef = None
  /\ resultSet = None
  /\ scanned = None
  /\ err = "none"
  /\ pc = "idle"
  /\ files = <<>>
  /\ idx = 0
  /\ all_results = <<>>
  /\ seen = <<>>
  /\ call = None
  /\ derived = None
  /\ manifest = None
  /\ config = None

\* search(): file_scanner.scan(...) and the empty result list
BeginSearch ==
  /\ pc = "idle" /\ query # None /\ resultSet = None
  /\ files' = ScanForQuery(fs, dirOrder, query[1])
  /\ idx' = 1
  /\ all_results' = <<>>
  /\ pc' = "loop"
  /\ UNCHANGED <<manifest, config, call, derived, fs, dirOrder, ctorArgs, query, writes, lastRef, resultSet,
                 scanned, err, seen>>

\* search(): one iteration of `for file_path in files`
SearchNextFile ==
  /\ pc = "loop" /\ idx <= Len(files)
  /\ LET entry == fs[files[idx]]
         found == _search_in_file(entry, files[idx], query[1].search_text,
                                  query[1].case_sensitive)
         step == LoopBody(all_results, found.results, query[1].limit) IN
     /\ seen' = Append(seen, entry)
     /\ IF found.raised # "none"
        THEN /\ err' = found.raised
             /\ pc' = "raised"
             /\ UNCHANGED <<all_results, idx>>
        ELSE /\ all_results' = step.results
             /\ pc' = IF step.break THEN "return" ELSE "loop"
             /\ idx' = IF step.break THEN idx ELSE idx + 1
             /\ err' = err
  /\ UNCHANGED <<manifest, config, call, derived, fs, dirOrder, ctorArgs, query, writes, lastRef, resultSet,
                 scanned, files>>

\* the return that counts the files the loop opened
EndSearchCountingOpened ==
  /\ pc = "return" \/ (pc = "loop" /\ idx > Len(files))
  /\ \E ms \in ExecTimes :
       resultSet' = Some(SearchResultSet(all_results, query[1],
                                         SubSeq(files, 1, Len(seen)), ms))
  /\ pc' = "done"
  /\ UNCHANGED <<manifest, config, call, derived, fs, dirOrder, ctorArgs, query, writes, lastRef, scanned, err,
                 files, idx, all_results, seen>>

\* search(): the SearchResultSet is built and returned
EndSearch ==
  /\ pc = "return" \/ (pc = "loop" /\ idx > Len(files))
  /\ \E ms \in ExecTimes :
       resultSet' = Some(SearchResultSet(all_results, query[1], files, ms))
  /\ pc' = "done"
  /\ UNCHANGED <<manifest, config, call, derived, fs, dirOrder, ctorArgs, query, writes, lastRef, scanned, err,
                 files, idx, all_results, seen>>

\* another process deletes, rewrites, makes unreadable or replaces by a
\* directory one path of the journal while search() runs
ExtDelete(p) ==
  /\ pc = "loop" /\ fs[p].kind # "none"
  /\ fs' = [fs EXCEPT ![p] = Absent]
  /\ UNCHANGED <<manifest, config, call, derived, dirOrder, ctorArgs, query, writes, lastRef, resultSet, scanned,
                 err, pc, files, idx, all_results, seen>>

Rewritten == File(<<"x">> \o NL \o <<"a", "a", "a", "a">> \o NL)

ExtWrite(p) ==
  /\ pc = "loop" /\ fs[p].kind = "file" /\ fs[p] # Rewritten
  /\ fs' = [fs EXCEPT ![p] = Rewritten]
  /\ UNCHANGED <<manifest, config, call, derived, dirOrder, ctorArgs, query, writes, lastRef, resultSet, scanned,
                 err, pc, files, idx, all_results, seen>>

ExtChmod(p) ==
  /\ pc = "loop" /\ fs[p].kind = "file" /\ fs[p].readable
  /\ fs' = [fs EXCEPT ![p] = Unreadable(fs[p])]
  /\ UNCHANGED <<manifest, config, call, derived, dirOrder, ctorArgs, query, writes, lastRef, resultSet, scanned,
                 err, pc, files, idx, all_results, seen>>

ExtReplaceByDir(p) ==
  /\ pc = "loop" /\ fs[p].kind = "file"
  /\ fs' = [fs EXCEPT ![p] = Directory]
  /\ UNCHANGED <<manifest, config, call, derived, dirOrder, ctorArgs, query, writes, lastRef, resultSet, scanned,
                 err, pc, files, idx, all_results, seen>>

NextExt ==
  \/ BeginSearch
  \/ SearchNextFile
  \/ EndSearch
  \/ \E p \in ExtPaths : ExtDelete(p)
  \/ \E p \in ExtPaths : ExtWrite(p)
  \/ \E p \in ExtPaths : ExtChmod(p)
  \/ \E p \in ExtPaths : ExtReplaceByDir(p)

SpecExt == InitExt /\ [][NextExt]_vars

\* ------------------------------------------- the SearchQuery object alone
InitQuery ==
  /\ fs = [p \in AllPaths |-> Absent]
  /\ dirOrder = <<>>
  /\ ctorArgs \in {Some(a) : a \in CtorArgs}
  /\ query = None
  /\ writes = 0
  /\ lastRef = None
  /\ resultSet = None
  /\ scanned = None
  /\ err = "none"
  /\ pc = "idle"
  /\ files = <<>>
  /\ idx = 0
  /\ all_results = <<>>
  /\ seen = <<>>
  /\ call = None
  /\ derived = None
  /\ manifest = None
  /\ config = None

\* SearchQuery(**ctorArgs)
Construct == ctorArgs # None /\ NewQuery(ctorArgs[1])

AssignableValues ==
  [search_text |-> {<<>>, <<".">>},
   date_after |-> {None, D10},
   date_before |-> {None, D01},
   entry_types |-> {<<>>, <<PEOPLE>>},
   cross_reference |-> {None},
   case_sensitive |-> BOOLEAN,
   limit |-> {None, Some(0), Some(-1), Some(1)}]

\* `query.<field> = value`: the model class is neither frozen nor validating
\* assignments, so the attribute is simply set
Assign(field, value) ==
  /\ query # None /\ writes < MaxWrites
  /\ query[1][field] # value
  /\ query' = Some([query[1] EXCEPT ![field] = value])
  /\ writes' = writes + 1
  /\ UNCHANGED <<manifest, config, call, derived, fs, dirOrder, ctorArgs, lastRef, resultSet, scanned, err,
                 pc, files, idx, all_results, seen>>

NextQuery ==
  \/ Construct
  \/ \E field \in DOMAIN AssignableValues :
       \E value \in AssignableValues[field] : Assign(field, value)

SpecQuery == InitQuery /\ [][NextQuery]_vars

\* ------------------------------------------- the methods of a result set
\* A search, then the methods of the SearchResultSet it returned and of its
\* SearchResult records.  derived is the chain of sets that sort_by_date
\* and filter_by_type returned, each called on the one before.

\* a project note that holds a fenced code block and a heading
Fenced ==
  File(<<"a", "a">> \o NL \o <<Backtick, Backtick, Backtick>> \o NL
       \o <<"#", "#", " ", "b">> \o NL)

SetPaths == {P_d01, P_d10, P_launch}

SetTrees ==
  UNION {{[p \in AllPaths |->
             IF p \notin S THEN Absent
             ELSE IF p = P_launch /\ fenced THEN Fenced ELSE Content(p)] :
            fenced \in BOOLEAN} :
         S \in {T \in SUBSET SetPaths : Cardinality(T) \in 1..(MaxFiles + 1)}}

SetQueryArgs ==
  [search_text : {<<"a", "a">>},
   date_after : {None, D01},
   date_before : {None, D10},
   entry_types : {None, Some(<<DAILY, PROJECT>>)},
   case_sensitive : {FALSE},
   limit : {None, Some(MaxLimit + 1)}]

\* datetime.now().strftime('%Y-%m-%d %H:%M:%S')
Timestamps == {<<"2", "0", "2", "4", "-", "1", "1", "-", "3", "0", " ", "1", "2", ":", "0", "0", ":", "0", "0">>}

\* the lines_before / lines_after arguments of get_context
ContextCounts == 0..3

InitSet ==
  /\ fs \in SetTrees
  /\ dirOrder \in WalkOrders(Existing(fs))
  /\ ctorArgs = None
  /\ query = None
  /\ writes = 0
  /\ lastRef = None
  /\ resultSet = None
  /\ scanned = None
  /\ err = "none"
  /\ pc = "idle"
  /\ files = <<>>
  /\ idx = 0
  /\ all_results = <<>>
  /\ seen = <<>>
  /\ call = None
  /\ derived = <<>>
  /\ manifest = None
  /\ config = None

\* the set the next method is called on
Receiver == IF derived = <<>> THEN resultSet[1] ELSE derived[Len(derived)].set

\* result_set.sort_by_date(descending)
SortByDate(descending) ==
  /\ resultSet # None /\ Len(derived) < MaxChain
  /\ call # None => call[1].method = "search_cross_references"
  /\ derived' = Append(derived, [method |-> "sort_by_date",
                                 args |-> descending,
                                 set |-> sort_by_date(Receiver, descending)])
  /\ UNCHANGED <<manifest, config, call, fs, dirOrder, ctorArgs, query, writes, lastRef,
                 resultSet, scanned, err, pc, files, idx, all_results, seen>>

\* result_set.filter_by_type(entry_type)
FilterByType(entry_type) ==
  /\ resultSet # None /\ Len(derived) < MaxChain
  /\ call # None => call[1].method = "search_cross_references"
  /\ derived' = Append(derived, [method |-> "filter_by_type",
                                 args |-> entry_type,
                                 set |-> filter_by_type(Receiver, entry_type)])
  /\ UNCHANGED <<manifest, config, call, fs, dirOrder, ctorArgs, query, writes, lastRef,
                 resultSet, scanned, err, pc, files, idx, all_results, seen>>

\* result_set.group_by_file()
GroupByFile ==
  /\ resultSet # None /\ call = None
  /\ call' = Some([method |-> "group_by_file", self |-> Receiver,
                   args |-> None, ret |-> group_by_file(Receiver)])
  /\ UNCHANGED <<manifest, config, derived, fs, dirOrder, ctorArgs, query, writes, lastRef,
                 resultSet, scanned, err, pc, files, idx, all_results, seen>>

\* result_set.results[n - 1].get_context(lines_before, lines_after)
GetContext(n, lines_before, lines_after) ==
  /\ resultSet # None /\ call = None /\ derived = <<>>
  /\ n \in 1..Len(resultSet[1].results)
  /\ call' = Some([method |-> "get_context", self |-> resultSet[1].results[n],
                   args |-> <<lines_before, lines_after>>,
                   ret |-> get_context(resultSet[1].results[n],
                                       lines_before, lines_after)])
  /\ UNCHANGED <<manifest, config, derived, fs, dirOrder, ctorArgs, query, writes, lastRef,
                 resultSet, scanned, err, pc, files, idx, all_results, seen>>

\* result_set.export_to_markdown(output_path): ret is the text written
ExportToMarkdown ==
  /\ resultSet # None /\ call = None
  /\ \E now \in Timestamps :
       call' = Some([method |-> "export_to_markdown", self |-> Receiver,
                     args |-> now, ret |-> export_to_markdown(Receiver, now)])
  /\ UNCHANGED <<manifest, config, derived, fs, dirOrder, ctorArgs, query, writes, lastRef,
                 resultSet, scanned, err, pc, files, idx, all_results, seen>>

NextSet ==
  \/ \E a \in SetQueryArgs : NewQuery(a)
  \/ Search
  \/ \E ms \in ExecTimes : SearchCrossReferencesOf(<<"p">>, None, None, None, ms)
  \/ \E descending \in BOOLEAN : SortByDate(descending)
  \/ \E entry_type \in {DAILY, PROJECT} : FilterByType(entry_type)
  \/ GroupByFile
  \/ \E n \in 1..6, lines_before \in ContextCounts, lines_after \in ContextCounts :
       GetContext(n, lines_before, lines_after)
  \/ ExportToMarkdown

SpecSet == InitSet /\ [][NextSet]_vars

\* ------------------------------------------------------------ date_utils
RECURSIVE DaysBeforeMonth(_, _)
DaysBeforeMonth(y, m) ==
  IF m = 1 THEN 0 ELSE DaysBeforeMonth(y, m - 1) + DaysInMonth(y, m - 1)

\* date.toordinal(): 0001-01-01 is day 1
toordinal(d) ==
  LET y == d[1] - 1 IN
  y * 365 + y \div 4 - y \div 100 + y \div 400 + DaysBeforeMonth(d[1], d[2]) + d[3]

\* date.fromordinal(n), 1 <= n <= date.max.toordinal()
fromordinal(n) ==
  LET n400 == (n - 1) \div 146097
      r400 == (n - 1) % 146097
      n100 == r400 \div 36524
      r100 == r400 % 36524
      n4 == r100 \div 1461
      r4 == r100 % 1461
      n1 == r4 \div 365
      r1 == r4 % 365
      y == n400 * 400 + n100 * 100 + n4 * 4 + n1 + 1 IN
  IF n1 = 4 \/ n100 = 4 THEN <<y - 1, 12, 31>>
  ELSE LET m == CHOOSE k \in 1..12 :
                  /\ DaysBeforeMonth(y, k) <= r1
                  /\ r1 < DaysBeforeMonth(y, k) + DaysInMonth(y, k) IN
       <<y, m, r1 - DaysBeforeMonth(y, m) + 1>>

\* today - timedelta(days=days): the date, or <<>> where Python raises
\* OverflowError (a timedelta beyond 999999999 days, a date before date.min
\* or after date.max)
DateMinusDays(today, days) ==
  LET o == toordinal(today) - days IN
  IF days > 999999999 \/ o < 1 \/ o > toordinal(<<9999, 12, 31>>) THEN None
  ELSE Some(fromordinal(o))

\* int(s) of a string of ASCII digits
RECURSIVE ParseInt(_)
ParseInt(s) ==
  IF s = <<>> THEN 0
  ELSE 10 * ParseInt(SubSeq(s, 1, Len(s) - 1)) + DigitVal(s[Len(s)])

\* the positions at which "$" matches in s: the end, and just before a
\* newline that ends s
DollarEnds(s) ==
  {Len(s)} \cup (IF Len(s) > 0 /\ s[Len(s)] = "\n" THEN {Len(s) - 1} ELSE {})

\* ^(\d{4})-(\d{2})-(\d{2})$ matches s
AbsoluteMatch(s) == 10 \in DollarEnds(s) /\ DateShapedAt(s, 1)

\* ^(\d+)([dwm])$ matches s
RelativeMatch(s) ==
  \E e \in DollarEnds(s) :
    /\ e >= 2
    /\ \A n \in 1..(e - 1) : s[n] \in Digits
    /\ s[e] \in {"d", "w", "m"}

\* the literal parts of the messages of date_utils
MsgDate ==
  [invalid |-> <<"I", "n", "v", "a", "l", "i", "d", " ", "d", "a", "t", "e", ":", " ">>,
   format |-> <<"I", "n", "v", "a", "l", "i", "d", " ", "d", "a", "t", "e", " ", "f", "o", "r", "m", "a", "t", ":", " ", "'">>,
   expected |-> <<"'", ".", " ", "E", "x", "p", "e", "c", "t", "e", "d", " ", "Y", "Y", "Y", "Y", "-", "M", "M", "-", "D", "D", " ", "o", "r", " ", "r", "e", "l", "a", "t", "i", "v", "e", " ", "f", "o", "r", "m", "a", "t", " ", "(", "e", ".", "g", ".", ",", " ", "'", "7", "d", "'", ",", " ", "'", "2", "w", "'", ",", " ", "'", "1", "m", "'", ")">>,
   relative |-> <<"I", "n", "v", "a", "l", "i", "d", " ", "r", "e", "l", "a", "t", "i", "v", "e", " ", "d", "a", "t", "e", " ", "f", "o", "r", "m", "a", "t", ":", " ", "'">>,
   like |-> <<"'", ".", " ", "E", "x", "p", "e", "c", "t", "e", "d", " ", "f", "o", "r", "m", "a", "t", " ", "l", "i", "k", "e", " ", "'", "7", "d", "'", " ", "(", "d", "a", "y", "s", ")", ",", " ", "'", "2", "w", "'", " ", "(", "w", "e", "e", "k", "s", ")", ",", " ", "o", "r", " ", "'", "1", "m", "'", " ", "(", "m", "o", "n", "t", "h", "s", ")">>,
   range |-> <<"d", "a", "t", "e", " ", "v", "a", "l", "u", "e", " ", "o", "u", "t", " ", "o", "f", " ", "r", "a", "n", "g", "e">>]

Returned(value) == [raised |-> "none", message |-> <<>>, value |-> Some(value)]

Raised(exception, message) ==
  [raised |-> exception, message |-> message, value |-> None]

\* parse_relative_date(relative), today being date.today()
parse_relative_date(relative, today) ==
  IF ~RelativeMatch(relative)
  THEN Raised("ValueError", MsgDate.relative \o relative \o MsgDate.like)
  ELSE LET e == CHOOSE n \in DollarEnds(relative) :
                  n >= 1 /\ relative[n] \in {"d", "w", "m"}
           amount == ParseInt(SubSeq(relative, 1, e - 1))
           unit == relative[e]
           out == IF unit = "d" THEN DateMinusDays(today, amount)
                  ELSE IF unit = "w" THEN DateMinusDays(today, 7 * amount)
                  ELSE DateMinusDays(today, amount * 30) IN
       IF out = None THEN Raised("OverflowError", MsgDate.range)
       ELSE Returned(out[1])

\* parse_date(date_str), today being date.today()
parse_date(date_str, today) ==
  IF AbsoluteMatch(date_str)
  THEN LET year == Num4(date_str, 1)
           month == Num2(date_str, 6)
           day == Num2(date_str, 9) IN
       IF ValidDate(year, month, day) THEN Returned(<<year, month, day>>)
       ELSE Raised("ValueError", MsgDate.invalid \o date_str)
  ELSE IF RelativeMatch(date_str) THEN parse_relative_date(date_str, today)
  ELSE Raised("ValueError", MsgDate.format \o date_str \o MsgDate.expected)

\* ------------------------------------------------- errors of the core API
\* the literal parts of the messages of search_result.py; validation is
\* the heading pydantic gives a ValidationError of the model
MsgResult ==
  [invalid |-> <<"I", "n", "v", "a", "l", "i", "d", " ", "e", "n", "t", "r", "y", " ", "t", "y", "p", "e", ":", " ", "'">>,
   valid |-> <<"'", ".", " ", "V", "a", "l", "i", "d", " ", "t", "y", "p", "e", "s", ":", " ">>,
   range |-> <<"d", "a", "t", "e", "_", "a", "f", "t", "e", "r", " ", "m", "u", "s", "t", " ", "b", "e", " ", "<", "=", " ", "d", "a", "t", "e", "_", "b", "e", "f", "o", "r", "e">>,
   validation |-> <<"v", "a", "l", "i", "d", "a", "t", "i", "o", "n", " ", "e", "r", "r", "o", "r", " ", "f", "o", "r", " ", "S", "e", "a", "r", "c", "h", "Q", "u", "e", "r", "y">>]

\* EntryType.from_string(value)
from_string(value) ==
  LET lowered == [n \in 1..Len(value) |-> Lower(value[n])]
      members == SelectSeq(AllEntryTypes, LAMBDA t : EntryTypeValue(t) = lowered)
      valid_types == Join([n \in 1..Len(AllEntryTypes) |->
                             EntryTypeValue(AllEntryTypes[n])], <<",", " ">>) IN
  IF members # <<>> THEN Returned(members[1])
  ELSE Raised("ValueError",
              MsgResult.invalid \o value \o MsgResult.valid \o valid_types)

\* SearchQuery.validate_date_range(v, info), info.data holding date_after
validate_date_range(v, date_after) ==
  IF v # None /\ date_after # None /\ DateGT(date_after, v)
  THEN Raised("ValueError", MsgResult.range)
  ELSE [raised |-> "none", message |-> <<>>, value |-> v]

\* the literal parts of the messages of file_scanner.py and search_engine.py
MsgPath ==
  [missing |-> <<"J", "o", "u", "r", "n", "a", "l", " ", "p", "a", "t", "h", " ", "d", "o", "e", "s", " ", "n", "o", "t", " ", "e", "x", "i", "s", "t", ":", " ">>,
   notdir |-> <<"J", "o", "u", "r", "n", "a", "l", " ", "p", "a", "t", "h", " ", "i", "s", " ", "n", "o", "t", " ", "a", " ", "d", "i", "r", "e", "c", "t", "o", "r", "y", ":", " ">>,
   unreadable |-> <<"J", "o", "u", "r", "n", "a", "l", " ", "p", "a", "t", "h", " ", "i", "s", " ", "n", "o", "t", " ", "r", "e", "a", "d", "a", "b", "l", "e", ":", " ">>,
   empty_ref |-> <<"R", "e", "f", "e", "r", "e", "n", "c", "e", " ", "c", "a", "n", "n", "o", "t", " ", "b", "e", " ", "e", "m", "p", "t", "y">>]

\* FileScanner(journal_path), the path given with what it holds
FileScanner(journal_path) ==
  IF journal_path.kind = "none"
  THEN Raised("ValueError", MsgPath.missing \o journal_path.path)
  ELSE IF journal_path.kind # "dir"
  THEN Raised("ValueError", MsgPath.notdir \o journal_path.path)
  ELSE Returned(journal_path.path)

\* SearchEngine(journal_path)
SearchEngine(journal_path) ==
  IF journal_path.kind = "none"
  THEN Raised("ValueError", MsgPath.missing \o journal_path.path)
  ELSE IF journal_path.kind # "dir"
  THEN Raised("ValueError", MsgPath.notdir \o journal_path.path)
  ELSE IF ~journal_path.readable
  THEN Raised("PermissionError", MsgPath.unreadable \o journal_path.path)
  ELSE FileScanner(journal_path)

\* ------------------------------------------------------ the search command
\* str.split(sep) for a one-character sep
RECURSIVE Split(_, _)
Split(s, sep) ==
  LET hits == {n \in 1..Len(s) : s[n] = sep} IN
  IF hits = {} THEN <<s>>
  ELSE LET i == SetMin(hits) IN
       <<SubSeq(s, 1, i - 1)>> \o Split(SubSeq(s, i + 1, Len(s)), sep)

\* the literal parts of the messages of cli/search.py
MsgCli ==
  [empty |-> <<"S", "e", "a", "r", "c", "h", " ", "q", "u", "e", "r", "y", " ", "c", "a", "n", "n", "o", "t", " ", "b", "e", " ", "e", "m", "p", "t", "y">>,
   setup |-> <<"N", "o", " ", "j", "o", "u", "r", "n", "a", "l", " ", "c", "o", "n", "f", "i", "g", "u", "r", "a", "t", "i", "o", "n", " ", "f", "o", "u", "n", "d", ".", " ", "P", "l", "e", "a", "s", "e", " ", "r", "u", "n", " ", "s", "e", "t", "u", "p", " ", "f", "i", "r", "s", "t", ".">>,
   missing |-> <<"J", "o", "u", "r", "n", "a", "l", " ", "p", "a", "t", "h", " ", "d", "o", "e", "s", " ", "n", "o", "t", " ", "e", "x", "i", "s", "t", ":", " ">>,
   after |-> <<"I", "n", "v", "a", "l", "i", "d", " ", "-", "-", "a", "f", "t", "e", "r", " ", "d", "a", "t", "e", ":", " ">>,
   before |-> <<"I", "n", "v", "a", "l", "i", "d", " ", "-", "-", "b", "e", "f", "o", "r", "e", " ", "d", "a", "t", "e", ":", " ">>,
   range_after |-> <<"I", "n", "v", "a", "l", "i", "d", " ", "d", "a", "t", "e", " ", "r", "a", "n", "g", "e", ":", " ", "-", "-", "a", "f", "t", "e", "r", " ", "(">>,
   range_before |-> <<")", " ", "c", "a", "n", "n", "o", "t", " ", "b", "e", " ", "l", "a", "t", "e", "r", " ", "t", "h", "a", "n", " ", "-", "-", "b", "e", "f", "o", "r", "e", " ", "(">>,
   range_end |-> <<")">>,
   type |-> <<"I", "n", "v", "a", "l", "i", "d", " ", "e", "n", "t", "r", "y", " ", "t", "y", "p", "e", ":", " ", "'">>,
   type_end |-> <<"'", ".", " ">>,
   no_types |-> <<"N", "o", " ", "e", "n", "t", "r", "y", " ", "t", "y", "p", "e", "s", " ", "s", "p", "e", "c", "i", "f", "i", "e", "d">>,
   ref |-> <<"I", "n", "v", "a", "l", "i", "d", " ", "c", "r", "o", "s", "s", "-", "r", "e", "f", "e", "r", "e", "n", "c", "e", ":", " ">>,
   failed |-> <<"S", "e", "a", "r", "c", "h", " ", "f", "a", "i", "l", "e", "d", ":", " ">>]

\* parse_entry_types(type_str): the loop from the n-th part on
RECURSIVE ParseTypeParts(_, _, _)
ParseTypeParts(parts, n, types) ==
  IF n > Len(parts)
  THEN (IF types = <<>> THEN Raised("ValueError", MsgCli.no_types)
        ELSE Returned(types))
  ELSE LET type_part == Strip(parts[n]) IN
       IF type_part = <<>> THEN ParseTypeParts(parts, n + 1, types)
       ELSE LET t == from_string(type_part) IN
            IF t.raised # "none"
            THEN Raised("ValueError", MsgCli.type \o type_part
                                        \o MsgCli.type_end \o t.message)
            ELSE ParseTypeParts(parts, n + 1, Append(types, t.value[1]))

parse_entry_types(type_str) == ParseTypeParts(Split(type_str, ","), 1, <<>>)

\* validate_date_range(date_after, date_before) of cli/search.py
cli_validate_date_range(date_after, date_before) ==
  IF date_after # None /\ date_before # None /\ DateGT(date_after, date_before)
  THEN Raised("ValueError",
              MsgCli.range_after \o IsoFormat(date_after) \o MsgCli.range_before
                \o IsoFormat(date_before) \o MsgCli.range_end)
  ELSE [raised |-> "none", message |-> <<>>, value |-> None]

\* what a call of SearchEngine.search gave its caller: [raised, message, set]
Ran(out) ==
  [raised |-> out.raised, message |-> <<>>,
   set |-> IF out.raised = "none" THEN Some(out.set) ELSE None]

\* SearchQuery(...) followed by engine.search(query): a query that does not
\* validate raises before the engine is asked
Searched(tree, order, q, ms) ==
  IF q = None
  THEN [raised |-> "ValidationError", message |-> MsgResult.validation, set |-> None]
  ELSE Ran(search(tree, order, q[1], ms))

\* SearchEngine.search_cross_references(reference, entry_types, date_after,
\* date_before): [raised, message, set]
search_cross_references(tree, order, reference, entry_types, date_after, date_before, ms) ==
  IF NormalizeRef(reference) = <<>>
  THEN [raised |-> "ValueError", message |-> MsgPath.empty_ref, set |-> None]
  ELSE Searched(tree, order,
                SearchQuery(CrossRefArgs(reference, entry_types,
                                         date_after, date_before)), ms)

\* what one run of the command did: the exit code, the error shown, the
\* outcome of SearchEngine(journal_path) if it was called, the query the
\* engine executed, the results displayed, the report written
Outcome(exit_code, error, engine, executed, displayed, written) ==
  [exit_code |-> exit_code, error |-> error, engine |-> engine,
   executed |-> executed, displayed |-> displayed, written |-> written]

\* typer.Exit(1) after show_error(error), before SearchEngine(journal_path)
ExitEarly(error) == Outcome(1, error, None, None, None, None)

\* the parse of an optional date option: `if after:` skips None and ""
OptionDate(option, today) ==
  IF TruthyList(option) THEN parse_date(option[1], today)
  ELSE [raised |-> "none", message |-> <<>>, value |-> None]

\* the value of a parsed optional date: the date, or <<>> for None
DateOf(out) == IF out.value = None THEN None ELSE out.value[1]

\* the try block of the command once the engine is built and the search
\* call has returned or raised (cli/search.py lines 124-175): ran is what
\* search_cross_references or search gave
CommandSearched(argv, env, engine, ran) ==
  IF engine.raised # "none"
  THEN Outcome(1, MsgCli.failed \o engine.message, Some(engine), None, None, None)
  ELSE IF ran.raised \in {"ValueError", "ValidationError"} /\ TruthyList(argv.ref)
  THEN Outcome(1, MsgCli.ref \o ran.message, Some(engine), None, None, None)
  ELSE IF ran.raised # "none"
  THEN Outcome(1, MsgCli.failed \o ran.message, Some(engine), None, None, None)
  ELSE Outcome(0, <<>>, Some(engine), Some(ran.set[1].query),
               Some(ran.set[1].results),
               IF TruthyList(argv.export) /\ (~env.output_exists \/ env.confirm)
               THEN Some(export_to_markdown(ran.set[1], env.now))
               ELSE None)

\* the search call of the command (lines 128-150): a cross-reference search
\* if --ref is given, the SearchQuery of the options otherwise
CommandSearch(argv, env, date_after, date_before, entry_types) ==
  IF TruthyList(argv.ref)
  THEN search_cross_references(env.tree, env.order, argv.ref[1], entry_types,
                               date_after, date_before, env.ms)
  ELSE Searched(env.tree, env.order,
                SearchQuery([search_text |-> argv.query,
                             date_after |-> date_after,
                             date_before |-> date_before,
                             entry_types |-> IF TruthyList(entry_types)
                                             THEN entry_types
                                             ELSE Some(AllEntryTypes),
                             case_sensitive |-> argv.case_sensitive,
                             limit |-> argv.limit]),
                env.ms)

\* the command once its options are parsed (lines 74-122): after, before
\* and types are what parse_date and parse_entry_types returned or raised
CommandParsed(argv, env, after, before, range, types) ==
  IF Strip(argv.query) = <<>> THEN ExitEarly(MsgCli.empty)
  ELSE IF ~env.configured THEN ExitEarly(MsgCli.setup)
  ELSE IF env.journal.kind = "none"
  THEN ExitEarly(MsgCli.missing \o env.journal.path)
  ELSE IF after.raised = "ValueError"
  THEN ExitEarly(MsgCli.after \o after.message)
  ELSE IF after.raised # "none" THEN ExitEarly(MsgCli.failed \o after.message)
  ELSE IF before.raised = "ValueError"
  THEN ExitEarly(MsgCli.before \o before.message)
  ELSE IF before.raised # "none" THEN ExitEarly(MsgCli.failed \o before.message)
  ELSE IF range.raised # "none" THEN ExitEarly(range.message)
  ELSE IF types.raised # "none" THEN ExitEarly(types.message)
  ELSE CommandSearched(argv, env, SearchEngine(env.journal),
                       CommandSearch(argv, env, DateOf(after), DateOf(before),
                                     types.value))

\* search(query, after, before, type, ref, export, case_sensitive, limit):
\* env is what the run finds (the configuration, the journal path and tree,
\* the clock, the answer to the overwrite prompt)
search_command(argv, env) ==
  CommandParsed(argv, env,
                OptionDate(argv.after, env.today),
                OptionDate(argv.before, env.today),
                cli_validate_date_range(
                  DateOf(OptionDate(argv.after, env.today)),
                  DateOf(OptionDate(argv.before, env.today))),
                IF TruthyList(argv.type) THEN parse_entry_types(argv.type[1])
                ELSE [raised |-> "none", message |-> <<>>, value |-> None])

\* ------------------------------------- the parsers and the command, called
\* date.today() when the call is made
Todays == {<<2024, 11, 15>>, <<2024, 3, 1>>}

\* the strings parse_date is called with
DateStrs ==
  {<<"7", "d">>, <<"0", "d">>, <<"2", "w">>, <<"1", "m">>, <<"0", "0", "7", "d">>, <<"6", "0", "d">>, <<"8", "0", "0", "0", "0", "0", "d">>, <<"3", "0", "0", "0", "0", "m">>,
   <<"7", "d", "\n">>, <<"2", "0", "2", "4", "-", "1", "1", "-", "0", "5">>, <<"2", "0", "2", "4", "-", "0", "2", "-", "2", "9">>, <<"2", "0", "2", "4", "-", "0", "2", "-", "3", "0">>, <<"2", "0", "2", "4", "-", "1", "3", "-", "0", "1">>,
   <<"0", "0", "0", "0", "-", "0", "1", "-", "0", "1">>, <<"2", "0", "2", "4", "-", "1", "1", "-", "0", "5", "\n">>, <<>>, <<"7">>, <<"d">>, <<"7", "x">>, <<"-", "7", "d">>, <<"7", "D">>,
   <<" ", "7", "d">>, <<"2", "0", "2", "4", "1", "1", "0", "5">>, <<"2", "0", "2", "4", "-", "1", "-", "5">>, <<"1", " ", "w">>}

\* the names EntryType.from_string is called with
TypeNames ==
  {<<"d", "a", "i", "l", "y">>, <<"D", "a", "i", "l", "y">>, <<"P", "E", "O", "P", "L", "E">>, <<"p", "r", "o", "j", "e", "c", "t">>, <<"m", "e", "m", "o", "r", "y">>, <<"m", "e", "m", "o", "r", "i", "e", "s">>,
   <<"p", "r", "o", "j", "e", "c", "t", "s">>, <<"n", "o", "t", "e", "s">>, <<"x">>, <<>>, <<" ", "d", "a", "i", "l", "y">>, <<"d", "a", "i", "l", "y", ",", "x">>}

\* the journal_path arguments of the constructors: a directory, a path that
\* does not exist, a file, a directory that cannot be listed
JournalPaths ==
  [path : {<<"/", "j">>, <<"/", "a", " ", "b">>}, kind : {"dir"}, readable : BOOLEAN]
    \cup [path : {<<"/", "j">>, <<"/", "a", " ", "b">>}, kind : {"none", "file"}, readable : {TRUE}]

\* the trees the command runs on
CliTrees == {tree \in Trees : Existing(tree) \subseteq {P_d01, P_d10}}

\* command lines that exercise the validation of the arguments
ArgvChecked ==
  [query : {<<"a", "a">>, <<>>, <<" ">>},
   after : {None, Some(<<>>), Some(<<"7", "d">>), Some(<<"2", "0", "2", "4", "-", "1", "1", "-", "0", "5">>),
            Some(<<"2", "0", "2", "4", "-", "1", "3", "-", "0", "1">>), Some(<<"x">>), Some(<<"8", "0", "0", "0", "0", "0", "d">>)},
   before : {None, Some(<<>>), Some(<<"2", "0", "2", "4", "-", "1", "1", "-", "0", "1">>), Some(<<"1", "w">>), Some(<<"1", "y">>)},
   type : {None, Some(<<>>), Some(<<"d", "a", "i", "l", "y">>), Some(<<"D", "a", "i", "l", "y", ",", " ", "x">>), Some(<<",">>)},
   ref : {None},
   export : {None},
   case_sensitive : {FALSE},
   limit : {None}]

\* command lines that reach the search
ArgvSearching ==
  [query : {<<"a", "a">>},
   after : {None, Some(<<"6", "0", "d">>)},
   before : {None},
   type : {None, Some(<<"d", "a", "i", "l", "y">>)},
   ref : {None, Some(<<>>), Some(<<"p">>)},
   export : {None},
   case_sensitive : BOOLEAN,
   limit : LimitArgs]

\* command lines that export the results
ArgvExporting ==
  [query : {<<"a", "a">>},
   after : {None},
   before : {None},
   type : {None},
   ref : {None, Some(<<"p">>)},
   export : {None, Some(<<"o", "u", "t", ".", "m", "d">>)},
   case_sensitive : {FALSE},
   limit : {None, Some(1)}]

\* what a run finds besides the tree: a configured, readable journal and no
\* file at the export path, or one of these otherwise
Usual ==
  [configured |-> TRUE,
   journal |-> [path |-> <<"/", "j">>, kind |-> "dir", readable |-> TRUE],
   output_exists |-> FALSE, confirm |-> FALSE]

Found ==
  {Usual,
   [Usual EXCEPT !.configured = FALSE],
   [Usual EXCEPT !.journal.kind = "none"],
   [Usual EXCEPT !.journal.kind = "file"],
   [Usual EXCEPT !.journal.readable = FALSE],
   [Usual EXCEPT !.output_exists = TRUE],
   [Usual EXCEPT !.output_exists = TRUE, !.confirm = TRUE]}

InitCli ==
  /\ fs \in CliTrees
  /\ dirOrder \in WalkOrders(Existing(fs))
  /\ ctorArgs = None
  /\ query = None
  /\ writes = 0
  /\ lastRef = None
  /\ resultSet = None
  /\ scanned = None
  /\ err = "none"
  /\ pc = "idle"
  /\ files = <<>>
  /\ idx = 0
  /\ all_results = <<>>
  /\ seen = <<>>
  /\ call = None
  /\ derived = None
  /\ manifest = None
  /\ config = None

\* the call is made, with its arguments and what it returned or raised
Called(method, args, ret) ==
  /\ call' = Some([method |-> method, self |-> None, args |-> args, ret |-> ret])
  /\ UNCHANGED <<manifest, config, derived, fs, dirOrder, ctorArgs, query, writes,
                 lastRef, resultSet, scanned, err, pc, files, idx, all_results,
                 seen>>

ParseDate ==
  \E date_str \in DateStrs, today \in Todays :
    /\ Idle
    /\ Called("parse_date", [date_str |-> date_str, today |-> today],
              parse_date(date_str, today))

FromString ==
  \E value \in TypeNames :
    /\ Idle
    /\ Called("from_string", value, from_string(value))

NewFileScanner ==
  \E journal_path \in JournalPaths :
    /\ Idle
    /\ Called("FileScanner", journal_path, FileScanner(journal_path))

NewSearchEngine ==
  \E journal_path \in JournalPaths :
    /\ Idle
    /\ Called("SearchEngine", journal_path, SearchEngine(journal_path))

ValidateDateRange ==
  \E date_after \in {None, D01, D05, D10}, v \in {None, D01, D05} :
    /\ Idle
    /\ Called("validate_date_range", [date_after |-> date_after, date_before |-> v],
              validate_date_range(v, date_after))

SearchCommand ==
  \E argv \in ArgvChecked \cup ArgvSearching \cup ArgvExporting,
     found \in Found, ms \in ExecTimes, now \in Timestamps :
    /\ Idle
    /\ argv \in ArgvExporting \/ found = Usual
    /\ Called("search_command", [argv |-> argv, found |-> found],
              search_command(argv, [configured |-> found.configured,
                                    journal |-> found.journal,
                                    output_exists |-> found.output_exists,
                                    confirm |-> found.confirm,
                                    today |-> <<2024, 11, 15>>,
                                    tree |-> fs, order |-> dirOrder,
                                    ms |-> ms, now |-> now]))

NextCli ==
  \/ ParseDate
  \/ FromString
  \/ NewFileScanner
  \/ NewSearchEngine
  \/ ValidateDateRange
  \/ SearchCommand

SpecCli == InitCli /\ [][NextCli]_vars

\* --------------------------------- one engine, the journal changing between
\* A SearchEngine that lives on while other programs create, delete, rename
\* and edit journal files between its calls.  pc is "idle" before the first
\* call, "called" after a call, "changed" once the journal has changed since
\* the last call, "recalled" after a call that followed such a change and
\* "exported" when a report has been written into the journal.
SeqPaths == {P_d01, P_d10}

SeqEntries == {Content(p) : p \in SeqPaths} \cup {Rewritten}

SeqTrees ==
  {[p \in AllPaths |-> IF p \in DOMAIN held THEN held[p] ELSE Absent] :
     held \in UNION {[S -> SeqEntries] :
                       S \in {T \in SUBSET SeqPaths : Cardinality(T) <= MaxFiles}}}

SeqQueryArgs ==
  [search_text : {<<"a", "a">>},
   date_after : {None, D05},
   date_before : {None},
   entry_types : {None},
   case_sensitive : {FALSE},
   limit : {None}]

\* where a report is exported to: x.md in the journal root, or a path
\* outside the journal
OutputPaths == {[under_root |-> TRUE, parts |-> P_root],
                [under_root |-> FALSE, parts |-> P_root]}

InitSeq ==
  /\ fs \in SeqTrees
  /\ dirOrder \in WalkOrders(Existing(fs))
  /\ ctorArgs = None
  /\ query = None
  /\ writes = 0
  /\ lastRef = None
  /\ resultSet = None
  /\ scanned = None
  /\ err = "none"
  /\ pc = "idle"
  /\ files = <<>>
  /\ idx = 0
  /\ all_results = <<>>
  /\ seen = <<>>
  /\ call = None
  /\ derived = None
  /\ manifest = None
  /\ config = None

\* a file opened for writing: truncated
AfterOpenForWriting(entry) == IF entry.kind = "file" THEN File(<<>>) ELSE entry

\* what a path holds after open(file_path, "r", encoding="utf-8",
\* errors="ignore") and the reads of _search_in_file
AfterOpen(entry) == entry

\* the journal after search() has gone through the files of the scan
TreeAfterSearch(tree, fileList) ==
  [p \in AllPaths |-> IF InList(p, fileList) THEN AfterOpen(tree[p]) ELSE tree[p]]

\* the position a call leaves the session in
Returning == IF pc \in {"idle", "called"} THEN "called" ELSE "recalled"

\* engine.search(SearchQuery(**a))
SeqSearch ==
  /\ pc # "exported"
  /\ \E a \in SeqQueryArgs, ms \in ExecTimes :
       LET q == SearchQuery(a)[1]
           out == search(fs, dirOrder, q, ms) IN
       /\ call' = Some([method |-> "search", self |-> None, args |-> q,
                        ret |-> out.set])
       /\ fs' = TreeAfterSearch(fs, ScanForQuery(fs, dirOrder, q))
  /\ pc' = Returning
  /\ UNCHANGED <<manifest, config, derived, dirOrder, ctorArgs, query, writes,
                 lastRef, resultSet, scanned, err, files, idx, all_results, seen>>

\* the scan that hands out the list of the previous scan_files call when
\* the arguments are the same
SeqScanFilesCached ==
  /\ pc # "exported"
  /\ \E entry_types \in {None, Some(<<DAILY>>)}, date_after \in {None, D05} :
       LET args == [entry_types |-> entry_types, date_after |-> date_after,
                    date_before |-> None] IN
       call' = Some([method |-> "scan_files", self |-> None, args |-> args,
                     ret |-> IF call # None /\ call[1].method = "scan_files"
                                  /\ call[1].args = args
                             THEN call[1].ret
                             ELSE Scan(fs, dirOrder, entry_types, date_after, None)])
  /\ pc' = Returning
  /\ UNCHANGED <<manifest, config, derived, fs, dirOrder, ctorArgs, query, writes,
                 lastRef, resultSet, scanned, err, files, idx, all_results, seen>>

\* engine.scan_files(entry_types, date_after, date_before)
SeqScanFiles ==
  /\ pc # "exported"
  /\ \E entry_types \in {None, Some(<<DAILY>>)}, date_after \in {None, D05} :
       LET args == [entry_types |-> entry_types, date_after |-> date_after,
                    date_before |-> None] IN
       call' = Some([method |-> "scan_files", self |-> None, args |-> args,
                     ret |-> Scan(fs, dirOrder, entry_types, date_after, None)])
  /\ pc' = Returning
  /\ UNCHANGED <<manifest, config, derived, fs, dirOrder, ctorArgs, query, writes,
                 lastRef, resultSet, scanned, err, files, idx, all_results, seen>>

\* engine.search_cross_references("p")
SeqSearchCrossReferences ==
  /\ pc # "exported"
  /\ \E ms \in ExecTimes :
       LET out == search_cross_references(fs, dirOrder, <<"p">>, None, None,
                                          None, ms) IN
       /\ call' = Some([method |-> "search_cross_references", self |-> None,
                        args |-> <<"p">>, ret |-> out.set[1]])
       /\ fs' = TreeAfterSearch(fs, ScanForQuery(fs, dirOrder, out.set[1].query))
  /\ pc' = Returning
  /\ UNCHANGED <<manifest, config, derived, dirOrder, ctorArgs, query, writes,
                 lastRef, resultSet, scanned, err, files, idx, all_results, seen>>

\* result_set.export_to_markdown(output_path) on the set the last search
\* returned: output_path.write_text(...) creates or replaces the file
SeqExportToMarkdown ==
  /\ pc \in {"called", "recalled"}
  /\ call # None => call[1].method \in {"search", "search_cross_references"}
  /\ call # None
  /\ \E output_path \in OutputPaths, now \in Timestamps :
       LET text == export_to_markdown(call[1].ret, now) IN
       /\ call' = Some([method |-> "export_to_markdown", self |-> call[1].ret,
                        args |-> [output_path |-> output_path, now |-> now],
                        ret |-> text])
       /\ IF output_path.under_root
          THEN /\ fs' = [fs EXCEPT ![output_path.parts] = File(text)]
               /\ dirOrder' = <<output_path.parts>> \o dirOrder
               /\ pc' = "exported"
          ELSE /\ UNCHANGED <<fs, dirOrder>>
               /\ pc' = Returning
  /\ UNCHANGED <<manifest, config, derived, ctorArgs, query, writes,
                 lastRef, resultSet, scanned, err, files, idx, all_results, seen>>

\* another program changes the journal between two calls
Changed(tree) ==
  /\ pc \in {"called", "changed", "recalled"}
  /\ fs' = tree
  /\ dirOrder' \in WalkOrders(Existing(tree))
  /\ pc' = "changed"
  /\ UNCHANGED <<manifest, config, call, derived, ctorArgs, query, writes,
                 lastRef, resultSet, scanned, err, files, idx, all_results, seen>>

SeqCreate ==
  \E p \in SeqPaths :
    fs[p].kind = "none" /\ Changed([fs EXCEPT ![p] = Content(p)])

SeqDelete ==
  \E p \in SeqPaths :
    fs[p].kind # "none" /\ Changed([fs EXCEPT ![p] = Absent])

SeqRename ==
  \E p, q \in SeqPaths :
    /\ fs[p].kind # "none" /\ fs[q].kind = "none"
    /\ Changed([fs EXCEPT ![p] = Absent, ![q] = fs[p]])

SeqEdit ==
  \E p \in SeqPaths :
    fs[p].kind = "file" /\ fs[p] # Rewritten /\ Changed([fs EXCEPT ![p] = Rewritten])

NextSeq ==
  \/ SeqSearch
  \/ SeqScanFiles
  \/ SeqSearchCrossReferences
  \/ SeqExportToMarkdown
  \/ SeqCreate
  \/ SeqDelete
  \/ SeqRename
  \/ SeqEdit

SpecSeq == InitSeq /\ [][NextSeq]_vars

\* --------------------------------------------------------------- Manifest
\* A path is [base, parts]: base "journal" or "home" for an absolute path
\* under the journal directory or under another directory, "" for a
\* relative path.  Manifest.files is the sequence of its items in insertion
\* order, each [key, source, hash, customized]; rel_to is the
\* relative_to argument of the methods.
\* at most this many files are tracked
MaxTracked == 2

JournalFile == [base |-> "journal", parts |-> P_root]
HomeFile == [base |-> "home", parts |-> P_root]
RelativeFile == [base |-> "", parts |-> P_root]

JournalDir == Some("journal")

\* what an absolute path holds: the journal is the tree, the other
\* directory holds one file that nobody edits
OnDisk(tree, path) ==
  IF path.base = "journal" THEN tree[path.parts] ELSE File(<<"h">>)

\* Path.is_absolute()
is_absolute(path) == path.base # ""

\* file_path.relative_to(relative_to) inside try/except ValueError: pass
RelativeTo(file_path, rel_to) ==
  IF file_path.base = rel_to[1] THEN [file_path EXCEPT !.base = ""]
  ELSE file_path

\* relative_to / file_path: <<path>>, or <<>> where None / Path raises
\* TypeError
Joined(rel_to, file_path) ==
  IF rel_to = None THEN None
  ELSE Some([file_path EXCEPT !.base = rel_to[1]])

\* file_path if file_path.is_absolute() else relative_to / file_path
ActualPath(file_path, rel_to) ==
  IF is_absolute(file_path) THEN Some(file_path)
  ELSE Joined(rel_to, file_path)

\* Manifest._compute_hash(file_path) on what the path holds: the digest
\* stands for the bytes it was computed from
_compute_hash(entry) == [sha256 |-> entry.data]

\* self.files[key], as a position in the sequence (0: not tracked)
Tracked(filesSeq, key) ==
  LET at == {n \in 1..Len(filesSeq) : filesSeq[n].key = key} IN
  IF at = {} THEN 0 ELSE CHOOSE n \in at : TRUE

\* add_file(file_path, source, customized, relative_to): [raised, files]
add_file(filesSeq, tree, file_path, source, customized, rel_to) ==
  LET path == IF rel_to # None THEN RelativeTo(file_path, rel_to)
              ELSE file_path
      actual == ActualPath(path, rel_to)
      item == [key |-> path, source |-> source,
               hash |-> _compute_hash(OnDisk(tree, actual[1])),
               customized |-> customized]
      n == Tracked(filesSeq, path) IN
  IF actual = None THEN [raised |-> "TypeError", files |-> filesSeq]
  ELSE IF OpenError(OnDisk(tree, actual[1])) # "none"
  THEN [raised |-> OpenError(OnDisk(tree, actual[1])), files |-> filesSeq]
  ELSE [raised |-> "none",
        files |-> IF n = 0 THEN Append(filesSeq, item)
                  ELSE [filesSeq EXCEPT ![n] = item]]

\* is_customized(file_path, relative_to): [raised, value]
is_customized(filesSeq, tree, file_path, rel_to) ==
  LET path == IF rel_to # None /\ is_absolute(file_path)
              THEN RelativeTo(file_path, rel_to) ELSE file_path
      n == Tracked(filesSeq, path)
      actual == ActualPath(path, rel_to) IN
  IF n = 0 THEN [raised |-> "none", value |-> FALSE]
  ELSE IF filesSeq[n].customized THEN [raised |-> "none", value |-> TRUE]
  ELSE IF actual = None THEN [raised |-> "TypeError", value |-> FALSE]
  ELSE IF OnDisk(tree, actual[1]).kind = "none"
  THEN [raised |-> "none", value |-> FALSE]
  ELSE IF OpenError(OnDisk(tree, actual[1])) # "none"
  THEN [raised |-> OpenError(OnDisk(tree, actual[1])), value |-> FALSE]
  ELSE [raised |-> "none",
        value |-> _compute_hash(OnDisk(tree, actual[1])) # filesSeq[n].hash]

\* mark_customized(file_path, relative_to): the files afterwards
mark_customized(filesSeq, file_path, rel_to) ==
  LET path == IF rel_to # None /\ is_absolute(file_path)
              THEN RelativeTo(file_path, rel_to) ELSE file_path
      n == Tracked(filesSeq, path) IN
  IF n = 0 THEN filesSeq ELSE [filesSeq EXCEPT ![n].customized = TRUE]

\* update_hash(file_path, relative_to): [raised, files]
update_hash(filesSeq, tree, file_path, rel_to) ==
  LET path == IF rel_to # None /\ is_absolute(file_path)
              THEN RelativeTo(file_path, rel_to) ELSE file_path
      n == Tracked(filesSeq, path)
      actual == ActualPath(path, rel_to) IN
  IF actual = None THEN [raised |-> "TypeError", files |-> filesSeq]
  ELSE IF n = 0 \/ OnDisk(tree, actual[1]).kind = "none"
  THEN [raised |-> "none", files |-> filesSeq]
  ELSE IF OpenError(OnDisk(tree, actual[1])) # "none"
  THEN [raised |-> OpenError(OnDisk(tree, actual[1])), files |-> filesSeq]
  ELSE [raised |-> "none",
        files |-> [filesSeq EXCEPT
                     ![n].hash = _compute_hash(OnDisk(tree, actual[1])),
                     ![n].customized = FALSE]]

\* str.startswith
startswith(s, prefix) ==
  Len(s) >= Len(prefix) /\ SubSeq(s, 1, Len(prefix)) = prefix

\* get_customized_files(source_filter): the loop from the n-th item on
RECURSIVE CustomizedFrom(_, _, _, _, _)
CustomizedFrom(filesSeq, tree, source_filter, n, customized) ==
  IF n > Len(filesSeq) THEN [raised |-> "none", value |-> customized]
  ELSE IF TruthyList(source_filter)
          /\ ~startswith(filesSeq[n].source, source_filter[1])
  THEN CustomizedFrom(filesSeq, tree, source_filter, n + 1, customized)
  ELSE IF filesSeq[n].customized
  THEN CustomizedFrom(filesSeq, tree, source_filter, n + 1,
                      Append(customized, filesSeq[n].key))
  ELSE LET found == is_customized(filesSeq, tree, filesSeq[n].key, None) IN
       IF found.raised # "none" THEN [raised |-> found.raised, value |-> <<>>]
       ELSE CustomizedFrom(filesSeq, tree, source_filter, n + 1,
                           IF found.value THEN Append(customized, filesSeq[n].key)
                           ELSE customized)

get_customized_files(filesSeq, tree, source_filter) ==
  CustomizedFrom(filesSeq, tree, source_filter, 1, <<>>)

Sources == {<<"f", "r", "a", "m", "e", "w", "o", "r", "k", ":", "g", "t", "d">>, <<"s", "y", "s", "t", "e", "m", ":", "i", "d", "e">>}

SourceFilters == {None, Some(<<>>), Some(<<"f", "r", "a", "m", "e", "w", "o", "r", "k", ":">>), Some(<<"s", "y", "s", "t", "e", "m", ":", "i", "d", "e">>)}

ManifestPaths == {JournalFile, HomeFile, RelativeFile}

InitManifest ==
  /\ fs = [p \in AllPaths |-> IF p = P_root THEN Content(p) ELSE Absent]
  /\ dirOrder = <<P_root>>
  /\ ctorArgs = None
  /\ query = None
  /\ writes = 0
  /\ lastRef = None
  /\ resultSet = None
  /\ scanned = None
  /\ err = "none"
  /\ pc = "idle"
  /\ files = <<>>
  /\ idx = 0
  /\ all_results = <<>>
  /\ seen = <<>>
  /\ call = None
  /\ derived = None
  /\ manifest = <<>>
  /\ config = None

\* a method of the manifest returns or raises, leaving these files
ManifestCall(filesSeq) ==
  /\ Len(filesSeq) <= MaxTracked
  /\ manifest' = filesSeq
  /\ call' = None
  /\ UNCHANGED <<config, derived, fs, dirOrder, ctorArgs, query, writes, lastRef,
                 resultSet, scanned, pc, files, idx, all_results, seen>>

AddFile ==
  \E file_path \in ManifestPaths, source \in Sources, customized \in BOOLEAN,
     rel_to \in {None, JournalDir} :
    LET out == add_file(manifest, fs, file_path, source, customized, rel_to) IN
    /\ err' = out.raised
    /\ ManifestCall(out.files)

MarkCustomized ==
  \E file_path \in ManifestPaths, rel_to \in {None, JournalDir} :
    /\ err' = "none"
    /\ ManifestCall(mark_customized(manifest, file_path, rel_to))

UpdateHash ==
  \E file_path \in ManifestPaths, rel_to \in {None, JournalDir} :
    LET out == update_hash(manifest, fs, file_path, rel_to) IN
    /\ err' = out.raised
    /\ ManifestCall(out.files)

GetCustomizedFiles ==
  /\ \E source_filter \in SourceFilters :
       call' = Some([method |-> "get_customized_files", self |-> manifest,
                     args |-> source_filter,
                     ret |-> get_customized_files(manifest, fs, source_filter)])
  /\ UNCHANGED <<manifest, config, derived, fs, dirOrder, ctorArgs, query, writes,
                 lastRef, resultSet, scanned, err, pc, files, idx, all_results,
                 seen>>

\* the user edits, deletes or restores the tracked journal file
UserEdits ==
  /\ \E entry \in {Content(P_root), Rewritten, Absent} :
       /\ entry # fs[P_root]
       /\ fs' = [fs EXCEPT ![P_root] = entry]
       /\ dirOrder' = IF entry = Absent THEN <<>> ELSE <<P_root>>
  /\ call' = None
  /\ UNCHANGED <<manifest, config, derived, ctorArgs, query, writes, lastRef,
                 resultSet, scanned, err, pc, files, idx, all_results, seen>>

NextManifest ==
  \/ AddFile
  \/ MarkCustomized
  \/ UpdateHash
  \/ GetCustomizedFiles
  \/ UserEdits

SpecManifest == InitManifest /\ [][NextManifest]_vars

\* ------------------------------------------------------ MultiJournalConfig
\* config is [active_journal, journals]; journals is the dict as the
\* sequence of its profiles in insertion order, each [name, location].
JournalNames == {<<"p", "e", "r", "s", "o", "n", "a", "l">>, <<"b", "u", "s", "i", "n", "e", "s", "s">>, <<"d", "e", "f", "a", "u", "l", "t">>}

Profiles == [name : JournalNames, location : {<<"/", "a">>, <<"/", "b">>}]

\* self.journals[name], as a position in the sequence (0: no such key)
JournalAt(journals, name) ==
  LET at == {n \in 1..Len(journals) : journals[n].name = name} IN
  IF at = {} THEN 0 ELSE CHOOSE n \in at : TRUE

\* get_active_profile(), env_journal being os.getenv("AI_JOURNAL"):
\* <<profile>>, or <<>> for None
get_active_profile(self, env_journal) ==
  IF TruthyList(env_journal) /\ JournalAt(self.journals, env_journal[1]) # 0
  THEN Some(self.journals[JournalAt(self.journals, env_journal[1])])
  ELSE IF JournalAt(self.journals, self.active_journal) # 0
  THEN Some(self.journals[JournalAt(self.journals, self.active_journal)])
  ELSE None

\* add_journal(profile): the object afterwards
add_journal(self, profile) ==
  LET n == JournalAt(self.journals, profile.name) IN
  [self EXCEPT !.journals = IF n = 0 THEN Append(self.journals, profile)
                            ELSE [self.journals EXCEPT ![n] = profile]]

\* remove_journal(name): the object afterwards
remove_journal(self, name) ==
  LET n == JournalAt(self.journals, name)
      rest == SelectSeq(self.journals, LAMBDA profile : profile.name # name) IN
  IF n = 0 THEN self
  ELSE [active_journal |-> IF self.active_journal = name /\ rest # <<>>
                           THEN rest[1].name ELSE self.active_journal,
        journals |-> rest]

\* set_active(name): [raised, self]
set_active(self, name) ==
  IF JournalAt(self.journals, name) = 0
  THEN [raised |-> "ValueError", self |-> self]
  ELSE [raised |-> "none", self |-> [self EXCEPT !.active_journal = name]]

\* a configuration whose active journal is its one journal
InitConfig ==
  /\ \E profile \in Profiles :
       config = [active_journal |-> profile.name, journals |-> <<profile>>]
  /\ fs = [p \in AllPaths |-> Absent]
  /\ dirOrder = <<>>
  /\ ctorArgs = None
  /\ query = None
  /\ writes = 0
  /\ lastRef = None
  /\ resultSet = None
  /\ scanned = None
  /\ err = "none"
  /\ pc = "idle"
  /\ files = <<>>
  /\ idx = 0
  /\ all_results = <<>>
  /\ seen = <<>>
  /\ call = None
  /\ derived = None
  /\ manifest = None

\* a method of the configuration returns or raises, leaving this object
ConfigCall(self) ==
  /\ config' = self
  /\ call' = None
  /\ UNCHANGED <<manifest, derived, fs, dirOrder, ctorArgs, query, writes, lastRef,
                 resultSet, scanned, pc, files, idx, all_results, seen>>

AddJournal ==
  \E profile \in Profiles :
    /\ err' = "none"
    /\ ConfigCall(add_journal(config, profile))

RemoveJournal ==
  \E name \in JournalNames :
    /\ err' = "none"
    /\ ConfigCall(remove_journal(config, name))

SetActive ==
  \E name \in JournalNames :
    /\ err' = set_active(config, name).raised
    /\ ConfigCall(set_active(config, name).self)

GetActiveProfile ==
  /\ \E env_journal \in {None, Some(<<>>)} \cup {Some(name) : name \in JournalNames} :
       call' = Some([method |-> "get_active_profile", self |-> config,
                     args |-> env_journal,
                     ret |-> get_active_profile(config, env_journal)])
  /\ UNCHANGED <<manifest, config, derived, fs, dirOrder, ctorArgs, query, writes,
                 lastRef, resultSet, scanned, err, pc, files, idx, all_results,
                 seen>>

NextConfig ==
  \/ AddJournal
  \/ RemoveJournal
  \/ SetActive
  \/ GetActiveProfile

SpecConfig == InitConfig /\ [][NextConfig]_vars

\* ================================================================ claims
\* the returned set, and its results as a set
RS == resultSet[1]

ResultsOf(set) == {set.results[n] : n \in 1..Len(set.results)}

\* text occurs in line at 1-based position i, under the case rule
CharEq(a, b, case_sensitive) == IF case_sensitive THEN a = b ELSE Lower(a) = Lower(b)

OccursAt(line, text, i, case_sensitive) ==
  /\ i >= 1
  /\ i + Len(text) - 1 <= Len(line)
  /\ \A k \in 1..Len(text) : CharEq(line[i + k - 1], text[k], case_sensitive)

ContainsText(line, text, case_sensitive) ==
  \E i \in 1..Len(line) : OccursAt(line, text, i, case_sensitive)

\* the lines a path holds, line endings stripped; none if it cannot be read
LinesOfEntry(entry) ==
  IF OpenError(entry) = "none" THEN StripEach(FileLines(entry)) ELSE <<>>

\* <<path, line number, line>> for every line of the entry containing text
ExpectedInFile(entry, path, text, case_sensitive) ==
  LET ls == LinesOfEntry(entry)
      has(n) == ContainsText(ls[n], text, case_sensitive)
      hitIdx == SelectSeq([n \in 1..Len(ls) |-> n], has) IN
  [k \in 1..Len(hitIdx) |-> <<path, hitIdx[k], ls[hitIdx[k]]>>]

Located(results) ==
  [n \in 1..Len(results) |->
     <<results[n].file_path, results[n].line_number, results[n].matched_line>>]

KnownFolders == {S_daily, S_projects, S_people, S_memories}

\* C1: every result's entry_type is a member of the query's entry_types; a
\* file in an unknown top-level folder or directly in the root contributes
\* no result, and no exception leaves search()
C1_ResultTypesWithinQuery ==
  /\ err \in {"none", "ValidationError", "ValueError"}
  /\ query # None => err = "none"
  /\ resultSet # None =>
       \A r \in ResultsOf(RS) :
         /\ InList(r.entry_type, RS.query.entry_types)
         /\ Len(r.file_path) >= 2
         /\ r.file_path[1] \in KnownFolders

\* a search restricted to daily entries returned results although the tree
\* also holds a matching file outside the four folders
C1_Witness ==
  /\ resultSet # None
  /\ RS.query.entry_types = <<DAILY>>
  /\ RS.results # <<>>
  /\ fs[P_notes].kind = "file" \/ fs[P_root].kind = "file"

\* C2: with no limit, the results are exactly the lines of the candidate
\* files that contain search_text literally (under the case rule), one
\* result per line, in scan order
C2_ResultsAreExactlyMatchingLines ==
  (resultSet # None /\ RS.query.limit = None) =>
    LET q == RS.query
        cands == ScanForQuery(fs, dirOrder, q) IN
    Located(RS.results) =
      Flatten([n \in 1..Len(cands) |->
                 ExpectedInFile(fs[cands[n]], cands[n], q.search_text,
                                q.case_sensitive)])

\* a search for "." returned the one line holding a dot and not the others
C2_Witness ==
  /\ resultSet # None
  /\ RS.query.limit = None
  /\ RS.query.search_text = <<".">>
  /\ Len(RS.results) = 1
  /\ fs[P_d01].kind = "file"
  /\ RS.results[1].file_path = P_d01

\* the results the same search returns without a limit
Unlimited(q) ==
  SearchLoop(fs, [q EXCEPT !.limit = None], ScanForQuery(fs, dirOrder, q),
             1, <<>>).results

\* C3: with limit N the results are the first min(N, M) of the unlimited
\* search's M results; never more than N, and total_count = N when M > N
C3_LimitKeepsFirstN ==
  (resultSet # None /\ RS.query.limit # None) =>
    LET n == RS.query.limit[1]
        full == Unlimited(RS.query)
        m == Len(full) IN
    /\ RS.results = SubSeq(full, 1, IF n < m THEN n ELSE m)
    /\ Len(RS.results) <= n
    /\ m > n => RS.total_count = n

\* the limit cut the list inside the second contributing file
C3_Witness ==
  /\ resultSet # None
  /\ RS.query.limit = Some(2)
  /\ Len(RS.results) = 2
  /\ RS.results[1].file_path # RS.results[2].file_path
  /\ \E n \in 1..Len(Unlimited(RS.query)) :
       /\ n > 2
       /\ Unlimited(RS.query)[n].file_path = RS.results[2].file_path

\* the date each path of the tree carries in its file name
NameDate(path) ==
  CASE path = P_d01 -> D01
    [] path = P_d10 -> D10
    [] path = P_notes -> D05
    [] path = P_m05 -> D05
    [] OTHER -> None

DayKey(d) == d[1] * 10000 + d[2] * 100 + d[3]

\* d is absent or lies in the inclusive interval [date_after, date_before]
InRange(d, date_after, date_before) ==
  \/ d = None
  \/ /\ date_after = None \/ DayKey(date_after) <= DayKey(d)
     /\ date_before = None \/ DayKey(d) <= DayKey(date_before)

C5_MatchedLineHasLiteralReference ==
  (lastRef # None /\ resultSet # None) =>
    \A r \in ResultsOf(RS) :
      ContainsText(r.matched_line, <<"[", "[">> \o NormalizeRef(lastRef[1]), TRUE)

\* C9: context_before is lines max(1, n-2)..n-1 and context_after lines
\* n+1..min(L, n+2) of the result's own file, line endings stripped
C9_ContextIsClippedWindow ==
  resultSet # None =>
    \A r \in ResultsOf(RS) :
      LET ls == LinesOfEntry(fs[r.file_path])
          n == r.line_number
          lo == IF n - 2 < 1 THEN 1 ELSE n - 2
          hi == IF n + 2 > Len(ls) THEN Len(ls) ELSE n + 2 IN
      /\ n \in 1..Len(ls)
      /\ r.matched_line = ls[n]
      /\ r.context_before = [k \in 1..(n - lo) |-> ls[lo + k - 1]]
      /\ r.context_after = [k \in 1..(hi - n) |-> ls[n + k]]

\* a match on the last line of a five-line file and one on a first line
C9_Witness ==
  /\ resultSet # None
  /\ \E r \in ResultsOf(RS) :
       /\ r.line_number = 5
       /\ Len(r.context_before) = 2
       /\ r.context_after = <<>>
  /\ \E r \in ResultsOf(RS) :
       /\ r.line_number = 1
       /\ r.context_before = <<>>
       /\ Len(r.context_after) = 1

\* 0-based offsets at which the query text occurs in the line
Occurrences(r, q) ==
  {i \in 0..Len(r.matched_line) :
     OccursAt(r.matched_line, q.search_text, i + 1, q.case_sensitive)}

OneResultPerLine(set) ==
  \A a, b \in 1..Len(set.results) :
    (/\ set.results[a].file_path = set.results[b].file_path
     /\ set.results[a].line_number = set.results[b].line_number) => a = b

\* C10 as stated: every offset at which the text occurs is listed in
\* match_positions, in increasing order, and every listed pair is an
\* occurrence; one result per line
C10_EveryOccurrenceListed ==
  resultSet # None =>
    /\ OneResultPerLine(RS)
    /\ \A r \in ResultsOf(RS) :
         LET mp == r.match_positions
             len == Len(RS.query.search_text) IN
         /\ \A i \in Occurrences(r, RS.query) :
              \E k \in 1..Len(mp) : mp[k] = <<i, i + len>>
         /\ \A k \in 1..Len(mp) :
              mp[k][1] \in Occurrences(r, RS.query) /\ mp[k][2] = mp[k][1] + len
         /\ \A k \in 1..(Len(mp) - 1) : mp[k][1] < mp[k + 1][1]

\* C10 amended: match_positions lists the occurrences found scanning left to
\* right without overlap: every pair is an occurrence, each pair starts at or
\* after the end of the one before, and an occurrence that is not listed lies
\* strictly inside a listed pair; one result per line
C10_NonOverlappingOccurrencesListed ==
  resultSet # None =>
    /\ OneResultPerLine(RS)
    /\ \A r \in ResultsOf(RS) :
         LET mp == r.match_positions
             len == Len(RS.query.search_text) IN
         /\ mp # <<>>
         /\ \A k \in 1..Len(mp) :
              mp[k][1] \in Occurrences(r, RS.query) /\ mp[k][2] = mp[k][1] + len
         /\ \A k \in 1..(Len(mp) - 1) : mp[k][2] <= mp[k + 1][1]
         /\ \A i \in Occurrences(r, RS.query) :
              \E k \in 1..Len(mp) :
                mp[k][1] = i \/ (mp[k][1] < i /\ i < mp[k][2])

\* one line with two separate occurrences, one result, both pairs listed
C10_Witness ==
  /\ resultSet # None
  /\ \E r \in ResultsOf(RS) :
       /\ r.matched_line = <<"a", "a", "X", "a", "a">>
       /\ r.match_positions = <<<<0, 2>>, <<3, 5>>>>

\* C6: a candidate file that cannot be opened when search() reaches it is
\* skipped without an exception, every file is read once in the state it is
\* in at that moment, and the other files' results are returned
C6_UnopenableFilesSkipped ==
  /\ pc # "raised"
  /\ err = "none"
  /\ Len(seen) <= Len(files)
  /\ pc = "done" =>
       LET q == RS.query
           exp == Flatten([n \in 1..Len(seen) |->
                             ExpectedInFile(seen[n], files[n], q.search_text,
                                            q.case_sensitive)]) IN
       /\ q.limit = None => Len(seen) = Len(files)
       /\ Located(RS.results) =
            IF q.limit # None /\ Len(exp) > q.limit[1]
            THEN SubSeq(exp, 1, q.limit[1]) ELSE exp

\* a listed file was gone when search() reached it, and the search still
\* returned the results of the other files
C6_Witness ==
  /\ pc = "done"
  /\ RS.results # <<>>
  /\ \E n \in 1..Len(seen) : seen[n].kind = "none"

\* C7 (SpecQuery): SearchQuery(...) fails for an empty search_text, a limit
\* <= 0 or date_after > date_before, and otherwise succeeds (equal dates
\* included) with all four entry types for an omitted or empty entry_types
C7_ConstructionValidates ==
  (ctorArgs # None /\ writes = 0 /\ (query # None \/ err # "none")) =>
    LET a == ctorArgs[1]
        bad == \/ a.search_text = <<>>
               \/ a.limit # None /\ a.limit[1] <= 0
               \/ /\ a.date_after # None /\ a.date_before # None
                  /\ DayKey(a.date_after) > DayKey(a.date_before) IN
    IF bad THEN query = None /\ err = "ValidationError"
    ELSE /\ err = "none"
         /\ query # None
         /\ query[1].search_text = a.search_text
         /\ query[1].date_after = a.date_after
         /\ query[1].date_before = a.date_before
         /\ query[1].case_sensitive = a.case_sensitive
         /\ query[1].limit = a.limit
         /\ query[1].entry_types =
              IF a.entry_types \in {None, Some(<<>>)}
              THEN <<DAILY, PROJECT, PEOPLE, MEMORY>> ELSE a.entry_types[1]

\* a construction with date_after = date_before and an empty entry_types
\* list succeeded with all four types
C7_Witness ==
  /\ ctorArgs # None
  /\ ctorArgs[1].date_after = D05 /\ ctorArgs[1].date_before = D05
  /\ ctorArgs[1].entry_types = Some(<<>>)
  /\ query # None
  /\ Len(query[1].entry_types) = 4

\* C8 (SpecQuery): a SearchQuery never changes after construction, so every
\* query object has a non-empty search_text, a positive limit and
\* date_after <= date_before
C8_QueryStaysValid ==
  query # None =>
    /\ query[1].search_text # <<>>
    /\ query[1].limit = None \/ query[1].limit[1] > 0
    /\ \/ query[1].date_after = None
       \/ query[1].date_before = None
       \/ DayKey(query[1].date_after) <= DayKey(query[1].date_before)

C12_UnfilteredScanReturnsEveryMarkdownFile ==
  (scanned # None /\ scanned[1].entry_types = None
     /\ scanned[1].date_after = None /\ scanned[1].date_before = None) =>
    LET paths == scanned[1].paths IN
    /\ \A p \in AllPaths :
         (fs[p].kind = "file" /\ Len(p[Len(p)]) >= 3
            /\ SubSeq(p[Len(p)], Len(p[Len(p)]) - 2, Len(p[Len(p)])) = <<".", "m", "d">>)
         => Cardinality({n \in 1..Len(paths) : paths[n] = p}) = 1
    /\ \A i, j \in 1..Len(paths) : paths[i] = paths[j] => i = j

\* an unfiltered scan returned a file two folders deep and a file outside
\* the four entry-type folders
C12_Witness ==
  /\ scanned # None /\ scanned[1].entry_types = None
  /\ scanned[1].date_after = None /\ scanned[1].date_before = None
  /\ \E i, j \in 1..Len(scanned[1].paths) :
       /\ scanned[1].paths[i] = P_launch
       /\ scanned[1].paths[j] \in {P_notes, P_root}

\* the text without its leading and trailing blanks
Trimmed(s) ==
  LET solid == {n \in 1..Len(s) : s[n] \notin {" ", "\t", "\n", "\r"}} IN
  IF solid = {} THEN <<>>
  ELSE SubSeq(s, CHOOSE n \in solid : \A m \in solid : n <= m,
                 CHOOSE n \in solid : \A m \in solid : n >= m)

\* the text without one trailing ".md"
WithoutExtension(s) ==
  IF Len(s) >= 3 /\ SubSeq(s, Len(s) - 2, Len(s)) = <<".", "m", "d">>
  THEN SubSeq(s, 1, Len(s) - 3) ELSE s

\* a result set but for its execution time
Untimed(set) == [set EXCEPT !.execution_time_ms = 0]

\* C20 (Spec): search_cross_references trims the reference and strips one
\* trailing ".md"; an empty normalized reference raises and nothing is
\* returned; otherwise the outcome is that of search() on the query built
\* from search_text "[[<normalized reference>" and the given type and date
\* filters (all types when none are given)
C20_CrossReferenceDelegatesToSearch ==
  (call # None /\ call[1].method = "search_cross_references") =>
    LET a == call[1].args
        norm == WithoutExtension(Trimmed(a.reference))
        q == SearchQuery([search_text |-> <<"[", "[">> \o norm,
                          date_after |-> a.date_after,
                          date_before |-> a.date_before,
                          entry_types |-> a.entry_types,
                          case_sensitive |-> FALSE,
                          limit |-> None]) IN
    IF norm = <<>> THEN err = "ValueError" /\ resultSet = None
    ELSE IF q = None THEN err = "ValidationError" /\ resultSet = None
    ELSE LET out == search(fs, dirOrder, q[1], 0) IN
         /\ err = out.raised
         /\ out.raised = "none" => (resultSet # None /\ Untimed(RS) = Untimed(out.set))
         /\ q[1].entry_types = IF a.entry_types \in {None, Some(<<>>)}
                               THEN AllEntryTypes ELSE a.entry_types[1]

\* " p.md" was looked up and lines holding "[[p" came back
C20_Witness ==
  /\ call # None /\ call[1].method = "search_cross_references"
  /\ call[1].args.reference = <<" ", "p", ".", "m", "d">>
  /\ resultSet # None
  /\ RS.query.search_text = <<"[", "[", "p">>
  /\ RS.results # <<>>

\* the sets a caller holds: the one the search returned and those derived
\* from it
SetsHeld ==
  (IF resultSet # None THEN {resultSet[1]} ELSE {})
    \cup {derived[n].set : n \in 1..Len(derived)}

\* the set the n-th derived set was derived from
SourceOf(n) == IF n = 1 THEN resultSet[1] ELSE derived[n - 1].set

\* the set a search() call returned is still what search() returned
SourceIntact ==
  query # None => Untimed(resultSet[1]) = Untimed(search(fs, dirOrder, query[1], 0).set)

\* C13 (SpecSet): the set search() or search_cross_references() returned and
\* every set derived from it by sort_by_date and filter_by_type calls has
\* total_count equal to the number of results it holds, so is_empty is
\* true exactly of the sets without results
C13_TotalCountIsNumberOfResults ==
  \A set \in SetsHeld :
    /\ set.total_count = Len(set.results)
    /\ is_empty(set) <=> set.results = <<>>

\* a search cut short by its limit was filtered to fewer results and the
\* filtered set was sorted
C13_Witness ==
  /\ resultSet # None /\ Len(derived) = 2
  /\ RS.query.limit # None /\ Len(RS.results) = RS.query.limit[1]
  /\ derived[1].method = "filter_by_type"
  /\ derived[1].set.results # <<>>
  /\ Len(derived[1].set.results) < Len(RS.results)
  /\ derived[2].method = "sort_by_date"

\* the day a result is sorted by, the minimum date for an undated result
DayOrMin(r) == IF r.entry_date = None THEN DayKey(<<1, 1, 1>>) ELSE DayKey(r.entry_date)

\* where a result stands in a sequence of distinct results
PositionIn(results, r) == CHOOSE n \in 1..Len(results) : results[n] = r

\* C14 (SpecSet): sort_by_date(descending) returns a set whose results are
\* a permutation of the source's, newest first when descending and oldest
\* first otherwise, an undated result counting as the minimum date, results
\* of equal date in their source order; the source set is as it was
C14_SortByDateIsStable ==
  \A n \in 1..Len(derived) :
    derived[n].method = "sort_by_date" =>
      LET src == SourceOf(n).results
          out == derived[n].set.results
          descending == derived[n].args IN
      /\ Len(out) = Len(src)
      /\ \A j \in 1..Len(src) :
           Cardinality({i \in 1..Len(out) : out[i] = src[j]}) = 1
      /\ \A i, k \in 1..Len(out) :
           i < k =>
             /\ IF descending THEN DayOrMin(out[i]) >= DayOrMin(out[k])
                ELSE DayOrMin(out[i]) <= DayOrMin(out[k])
             /\ DayOrMin(out[i]) = DayOrMin(out[k]) =>
                  PositionIn(src, out[i]) < PositionIn(src, out[k])
      /\ derived[n].set.query = SourceOf(n).query
      /\ SourceIntact

\* results of two dates, several of one date and undated ones, found in an
\* order that is not newest first, were sorted newest first
C14_Witness ==
  /\ resultSet # None /\ Len(derived) >= 1
  /\ derived[1].method = "sort_by_date" /\ derived[1].args = TRUE
  /\ derived[1].set.results # RS.results
  /\ \E i, j, k, l \in 1..Len(RS.results) :
       /\ RS.results[i].entry_date = None
       /\ RS.results[j].entry_date = D01
       /\ RS.results[k].entry_date = D01 /\ j # k
       /\ RS.results[l].entry_date = D10

\* C15 (SpecSet): filter_by_type(t) returns a set whose results are
\* exactly the source results of type t in their source order, whose
\* total_count is their number and whose query, execution_time_ms and
\* files_scanned are the source's; the source set is as it was
C15_FilterByTypeKeepsOrderAndMetadata ==
  \A n \in 1..Len(derived) :
    derived[n].method = "filter_by_type" =>
      LET src == SourceOf(n)
          out == derived[n].set
          t == derived[n].args IN
      /\ ResultsOf(out) = {r \in ResultsOf(src) : r.entry_type = t}
      /\ Len(out.results) = Cardinality(ResultsOf(out))
      /\ \A i, k \in 1..Len(out.results) :
           i < k => PositionIn(src.results, out.results[i])
                      < PositionIn(src.results, out.results[k])
      /\ out.total_count = Len(out.results)
      /\ out.query = src.query
      /\ out.execution_time_ms = src.execution_time_ms
      /\ out.files_scanned = src.files_scanned
      /\ SourceIntact

\* a set with daily and project results was filtered down to its daily ones
C15_Witness ==
  /\ resultSet # None /\ Len(derived) >= 1
  /\ derived[1].method = "filter_by_type" /\ derived[1].args = DAILY
  /\ Len(derived[1].set.results) >= 2
  /\ Len(derived[1].set.results) < Len(RS.results)

\* C16 (SpecSet): group_by_file() returns a mapping whose keys are the
\* distinct file paths of the results and whose value for a path is the
\* results with that path in their original order, so that every result
\* is in exactly one group
C16_GroupByFilePartitionsResults ==
  (call # None /\ call[1].method = "group_by_file") =>
    LET results == call[1].self.results
        grouped == call[1].ret IN
    /\ DOMAIN grouped = {results[n].file_path : n \in 1..Len(results)}
    /\ \A p \in DOMAIN grouped :
         grouped[p] = SelectSeq(results, LAMBDA r : r.file_path = p)
    /\ \A n \in 1..Len(results) :
         Cardinality({<<p, i>> \in UNION {{<<p, i>> : i \in 1..Len(grouped[p])} :
                                            p \in DOMAIN grouped} :
                        grouped[p][i] = results[n]}) = 1

\* results of two files, several of them in one file, were grouped
C16_Witness ==
  /\ call # None /\ call[1].method = "group_by_file"
  /\ Cardinality(DOMAIN call[1].ret) = 2
  /\ \E p \in DOMAIN call[1].ret : Len(call[1].ret[p]) >= 2

\* the lines joined by newlines
RECURSIVE NewlineJoined(_)
NewlineJoined(lines) ==
  IF Len(lines) = 1 THEN lines[1]
  ELSE lines[1] \o <<"\n">> \o NewlineJoined(Tail(lines))

\* C17 (SpecSet): get_context(before_n, after_n) is the newline-join of the
\* last min(before_n, len(context_before)) context-before lines, the
\* matched line and the first min(after_n, len(context_after))
\* context-after lines
C17_GetContextTakesAtMostNLines ==
  (call # None /\ call[1].method = "get_context") =>
    LET r == call[1].self
        nb == Min(call[1].args[1], Len(r.context_before))
        na == Min(call[1].args[2], Len(r.context_after)) IN
    call[1].ret =
      NewlineJoined(SubSeq(r.context_before, Len(r.context_before) - nb + 1,
                           Len(r.context_before))
                      \o <<r.matched_line>>
                      \o SubSeq(r.context_after, 1, na))

\* the lines of a text
RECURSIVE SplitLines(_)
SplitLines(text) ==
  LET breaks == {n \in 1..Len(text) : text[n] = "\n"} IN
  IF breaks = {} THEN <<text>>
  ELSE LET i == CHOOSE n \in breaks : \A m \in breaks : n <= m IN
       <<SubSeq(text, 1, i - 1)>> \o SplitLines(SubSeq(text, i + 1, Len(text)))

StartsWith(line, prefix) ==
  Len(line) >= Len(prefix) /\ SubSeq(line, 1, Len(prefix)) = prefix

\* the lines of a report above its first rule, the query line apart
ReportHeader(lines) ==
  LET rules == {n \in 1..Len(lines) : lines[n] = <<"-", "-", "-">>}
      first == CHOOSE n \in rules : \A m \in rules : n <= m IN
  SelectSeq(SubSeq(lines, 1, first - 1),
            LAMBDA line : ~StartsWith(line, <<"*", "*", "Q", "u", "e", "r", "y", "*", "*", ":", " ">>))

\* some line of the header holds the word
Mentions(header, word) ==
  \E n \in 1..Len(header) : ContainsText(header[n], word, TRUE)

\* a date as YYYY-MM-DD
DateText(d) == IF d = D01 THEN <<"2", "0", "2", "4", "-", "1", "1", "-", "0", "1">> ELSE <<"2", "0", "2", "4", "-", "1", "1", "-", "1", "0">>

\* C18 (SpecSet): the report of export_to_markdown shows each of
\* date_after, date_before, a restricted entry-type list, case-sensitivity
\* and the limit if and only if it is set on the query
C18_ReportShowsExactlyTheActiveFilters ==
  (call # None /\ call[1].method = "export_to_markdown") =>
    LET q == call[1].self.query
        types == {q.entry_types[n] : n \in 1..Len(q.entry_types)}
        header == ReportHeader(SplitLines(call[1].ret)) IN
    /\ q.date_after # None <=> Mentions(header, <<"A", "f", "t", "e", "r">>)
    /\ q.date_after # None => Mentions(header, <<"A", "f", "t", "e", "r", " ">> \o DateText(q.date_after))
    /\ q.date_before # None <=> Mentions(header, <<"B", "e", "f", "o", "r", "e">>)
    /\ q.date_before # None => Mentions(header, <<"B", "e", "f", "o", "r", "e", " ">> \o DateText(q.date_before))
    /\ types # {DAILY, PROJECT, PEOPLE, MEMORY} <=> Mentions(header, <<"T", "y", "p", "e", "s">>)
    /\ q.case_sensitive <=> (Mentions(header, <<"C", "a", "s", "e">>) \/ Mentions(header, <<"c", "a", "s", "e">>))
    /\ q.limit # None <=> (Mentions(header, <<"L", "i", "m", "i", "t">>) \/ Mentions(header, <<"l", "i", "m", "i", "t">>))

\* line n of the report lies inside a fenced code block
InFence(lines, n) ==
  Cardinality({m \in 1..(n - 1) :
                 StartsWith(lines[m], <<Backtick, Backtick, Backtick>>)}) % 2 = 1

\* the level-two headings of the report, in order
ReportSections(lines) ==
  SelectSeq([n \in 1..Len(lines) |-> n],
            LAMBDA n : StartsWith(lines[n], <<"#", "#", " ">>) /\ ~InFence(lines, n))

\* a number below ten in decimal
DigitText(n) == <<CHOOSE c \in Digits : DigitVal(c) = n>>

\* C19 (SpecSet): the report starts with "# Search Results", holds the
\* query text, states total_count as the number of matches and the number
\* of distinct file paths as the number of files, and has exactly one
\* "## " section per result, in result order
C19_ReportHasOneSectionPerResult ==
  (call # None /\ call[1].method = "export_to_markdown") =>
    LET set == call[1].self
        paths == {set.results[n].file_path : n \in 1..Len(set.results)}
        lines == SplitLines(call[1].ret)
        sections == ReportSections(lines) IN
    /\ StartsWith(call[1].ret, <<"#", " ", "S", "e", "a", "r", "c", "h", " ", "R", "e", "s", "u", "l", "t", "s">>)
    /\ ContainsText(call[1].ret, set.query.search_text, TRUE)
    /\ \E n \in 1..Len(lines) :
         ContainsText(lines[n],
                      <<" ">> \o DigitText(set.total_count) \o <<" ", "m", "a", "t", "c", "h", "e", "s", " ", "i", "n", " ">>
                        \o DigitText(Cardinality(paths)) \o <<" ", "f", "i", "l", "e", "s">>, TRUE)
    /\ Len(sections) = Len(set.results)
    /\ \A k \in 1..Len(sections) :
         k <= Len(set.results) =>
           StartsWith(lines[sections[k]],
                      <<"#", "#", " ">>
                        \o set.results[k].file_path[Len(set.results[k].file_path)]
                        \o <<" ", "(">>)

\* a string of the shape <N><unit>: decimal digits, then d, w or m
RelativeShape(s) ==
  /\ Len(s) >= 2
  /\ \A n \in 1..(Len(s) - 1) : s[n] \in Digits
  /\ s[Len(s)] \in {"d", "w", "m"}

\* the days one unit stands for
UnitDays(unit) == IF unit = "d" THEN 1 ELSE IF unit = "w" THEN 7 ELSE 30

\* C21 (SpecCli): for a string <N><unit> parse_date returns the calendar
\* date N, 7*N or 30*N days before today and raises nothing
C21_RelativeDateIsTodayMinusN ==
  (call # None /\ call[1].method = "parse_date"
     /\ RelativeShape(call[1].args.date_str)) =>
    LET s == call[1].args.date_str
        days == UnitDays(s[Len(s)]) * ParseInt(SubSeq(s, 1, Len(s) - 1))
        ret == call[1].ret IN
    /\ ret.raised = "none"
    /\ ret.value # None
    /\ ValidDate(ret.value[1][1], ret.value[1][2], ret.value[1][3])
    /\ toordinal(ret.value[1]) = toordinal(call[1].args.today) - days

\* the text occurs in the message as it was given
Quotes(message, text) == ContainsText(message, text, TRUE)

\* datetime.date(y, m, d), the repr of a date
DateRepr(d) ==
  <<"d", "a", "t", "e", "t", "i", "m", "e", ".", "d", "a", "t", "e", "(">> \o Str(d[1]) \o <<",", " ">> \o Str(d[2]) \o <<",", " ">> \o Str(d[3]) \o <<")">>

\* the message shows the date, as str() or as repr() writes it
ShowsDate(message, d) ==
  Quotes(message, IsoFormat(d)) \/ Quotes(message, DateRepr(d))

\* C22 (SpecCli): the message of every fatal input error holds the input
\* that failed: the date string for parse_date's ValueError, the name and
\* the valid values for from_string, the path for the two constructors,
\* both dates for the SearchQuery date-range error
C22_ErrorsNameTheFailingInput ==
  (call # None
     /\ call[1].method \in {"parse_date", "from_string", "FileScanner",
                            "SearchEngine", "validate_date_range"}
     /\ call[1].ret.raised # "none") =>
    LET c == call[1] IN
    /\ (c.method = "parse_date" /\ c.ret.raised = "ValueError") =>
         Quotes(c.ret.message, c.args.date_str)
    /\ c.method = "from_string" =>
         /\ Quotes(c.ret.message, c.args)
         /\ \A n \in 1..Len(AllEntryTypes) :
              Quotes(c.ret.message, EntryTypeValue(AllEntryTypes[n]))
    /\ c.method \in {"FileScanner", "SearchEngine"} =>
         Quotes(c.ret.message, c.args.path)
    /\ c.method = "validate_date_range" =>
         /\ ShowsDate(c.ret.message, c.args.date_after)
         /\ ShowsDate(c.ret.message, c.args.date_before)

\* the option was given and parse_date rejects its value
Unparseable(option, today) ==
  option # None /\ parse_date(option[1], today).raised # "none"

\* the date an option stands for, <<>> if it was not given or does not parse
Parsed(option, today) ==
  IF option = None \/ Unparseable(option, today) THEN None
  ELSE parse_date(option[1], today).value[1]

\* some name of the comma-separated list is not an entry type
HasUnknownType(option) ==
  /\ option # None
  /\ LET parts == Split(option[1], ",") IN
     \E n \in 1..Len(parts) :
       Strip(parts[n]) # <<>> /\ from_string(Strip(parts[n])).raised # "none"

\* C23 (SpecCli): a run of the search command with an empty or blank
\* query, an unparseable --after or --before, --after later than --before
\* or an unknown name in --type exits non-zero and has neither constructed
\* a SearchEngine nor executed a query
C23_BadArgumentsExitBeforeTheEngine ==
  (call # None /\ call[1].method = "search_command") =>
    LET argv == call[1].args.argv
        today == <<2024, 11, 15>>
        date_after == Parsed(argv.after, today)
        date_before == Parsed(argv.before, today) IN
    (\/ Strip(argv.query) = <<>>
     \/ Unparseable(argv.after, today)
     \/ Unparseable(argv.before, today)
     \/ date_after # None /\ date_before # None /\ DateGT(date_after, date_before)
     \/ HasUnknownType(argv.type)) =>
      /\ call[1].ret.exit_code # 0
      /\ call[1].ret.engine = None
      /\ call[1].ret.executed = None

\* C24 (SpecCli): a run of the search command with --limit N that
\* succeeds executed a query whose limit is N and displayed at most N
\* results, with and without --ref
C24_LimitReachesTheExecutedQuery ==
  (call # None /\ call[1].method = "search_command"
     /\ call[1].args.argv.limit # None /\ call[1].ret.exit_code = 0) =>
    /\ call[1].ret.executed[1].limit = call[1].args.argv.limit
    /\ Len(call[1].ret.displayed[1]) <= call[1].args.argv.limit[1]

\* the *.md files the journal holds now that pass the filters of a scan
Candidates(entry_types, date_after) ==
  {p \in AllPaths :
     /\ fs[p].kind = "file"
     /\ WithoutExtension(p[Len(p)]) # p[Len(p)]
     /\ entry_types # None => p[1] = S_daily
     /\ (date_after # None /\ NameDate(p) # None) => ~DateLT(NameDate(p), date_after)}

CallReturns == pc' \in {"called", "recalled", "exported"}

\* C28 (SpecSeq): a call of search(), search_cross_references() or
\* scan_files() leaves every path of the journal and the directory listing
\* as they were; a call of export_to_markdown changes at most the path it
\* is given
C28_OnlyExportWritesAndOnlyItsOutput ==
  [][CallReturns =>
       /\ \A p \in AllPaths :
            fs'[p] # fs[p] =>
              /\ call'[1].method = "export_to_markdown"
              /\ call'[1].args.output_path = [under_root |-> TRUE, parts |-> p]
       /\ call'[1].method # "export_to_markdown" => dirOrder' = dirOrder]_vars

\* a search has read both files of the journal, which hold what they held,
\* and a report was then written to x.md in the journal root
C28_Witness ==
  /\ pc = "exported"
  /\ call[1].method = "export_to_markdown"
  /\ Len(call[1].self.results) >= 2
  /\ \E i, j \in 1..Len(call[1].self.results) :
       /\ call[1].self.results[i].file_path = P_d01
       /\ call[1].self.results[j].file_path = P_d10
  /\ fs[P_d01] = Content(P_d01)
  /\ fs[P_d10] = Content(P_d10)
  /\ fs[P_root] = File(call[1].ret)

\* C26 (Spec): the list scan_files returns depends on the tree and the
\* arguments alone: whatever order the file system enumerates the entries
\* in, the same paths come back in the same order
C26_ScanOrderIsAFunctionOfThePaths ==
  scanned # None =>
    \A order \in WalkOrders(Existing(fs)) :
      Scan(fs, order, scanned[1].entry_types, scanned[1].date_after,
           scanned[1].date_before) = scanned[1].paths

\* the files the results of a set come from
FilesOf(set) == {set.results[n].file_path : n \in 1..Len(set.results)}

\* C27 (SpecExt): files_scanned of the returned set is the length of the
\* list the scan returned, whether or not each file was opened or could be
\* read, and is at least the number of files the results come from
C27_FilesScannedCountsCandidates ==
  pc = "done" =>
    /\ RS.files_scanned = Len(files)
    /\ RS.files_scanned >= Cardinality(FilesOf(RS))
    /\ Len(seen) <= RS.files_scanned

\* the limit was reached on the first of two candidates: the second was
\* never opened and is counted all the same
C27_Witness ==
  /\ pc = "done"
  /\ Len(files) = 2
  /\ Len(seen) = 1
  /\ Len(RS.results) = MaxLimit
  /\ RS.files_scanned = 2
  /\ Cardinality(FilesOf(RS)) = 1

\* what the file of a tracked key holds now, a relative key being relative
\* to the journal directory
FileOfKey(key) ==
  OnDisk(fs, IF key.base = "" THEN [key EXCEPT !.base = "journal"] ELSE key)

\* the item is one get_customized_files(source_filter) has to list
IsCustomizedItem(item, source_filter) ==
  /\ source_filter = None \/ StartsWith(item.source, source_filter[1])
  /\ \/ item.customized
     \/ FileOfKey(item.key).data # item.hash.sha256

\* C29 (SpecManifest): get_customized_files(source_filter) raises nothing
\* and returns, once each, the tracked keys whose source starts with the
\* filter and whose item is flagged customized or whose file's content is
\* no longer the content the recorded hash was taken of, for absolute keys
\* and for keys relative to the journal
C29_CustomizedFilesAreListed ==
  (call # None /\ call[1].method = "get_customized_files") =>
    LET ret == call[1].ret
        listed == {ret.value[n] : n \in 1..Len(ret.value)} IN
    /\ ret.raised = "none"
    /\ Cardinality(listed) = Len(ret.value)
    /\ \A n \in 1..Len(manifest) :
         (manifest[n].customized \/ FileOfKey(manifest[n].key).kind = "file") =>
           (manifest[n].key \in listed
              <=> IsCustomizedItem(manifest[n], call[1].args))
    /\ \A key \in listed : Tracked(manifest, key) # 0

\* the names of the journals the configuration holds
NamesHeld == {config.journals[n].name : n \in 1..Len(config.journals)}

\* C30 (SpecConfig): after any add_journal, remove_journal and set_active
\* calls on a configuration whose active journal existed, active_journal
\* names a journal of the configuration whenever it holds one, and
\* get_active_profile() with AI_JOURNAL unset then returns a profile
C30_ActiveJournalExists ==
  /\ config.journals # <<>> => config.active_journal \in NamesHeld
  /\ (call # None /\ call[1].method = "get_active_profile"
        /\ call[1].args = None /\ config.journals # <<>>) =>
       /\ call[1].ret # None
       /\ call[1].ret[1].name = config.active_journal

====
